---- MODULE Spec2Model ----
(***************************************************************************)
(* Chat_Playground server core: the connection/session registry, the       *)
(* delivery coordinator (sendMessageWithRetry), the heartbeat monitor, the *)
(* WebSocket admission gate and the AI orchestrator with fallback.         *)
(*                                                                         *)
(* The subsystems share one set of variables; each has its own             *)
(* specification that moves its own variables and leaves the others at     *)
(* their initial value:                                                    *)
(*   Spec          session registry and gateway connection lifecycle       *)
(*   SpecHeartbeat the heartbeat interval and the disconnect timeout       *)
(*   SpecDelivery  ChatGateway.handleMessage and sendMessageWithRetry      *)
(*   SpecOverlap   two sendMessage events whose deliveries overlap         *)
(*   SpecAdmission WebSocketRateLimitGuard and the rate limiting service   *)
(*   SpecAI        AI orchestrator and ChatGateway.handleAiMessage         *)
(*   SpecAISender  sendAiMessage whose sender may disconnect               *)
(*   SpecRecovery  a recipient disconnects and reconnects during delivery  *)
(*   SpecPurge     removal timeouts and the periodic cleanup, on a clock   *)
(*   SpecConnect   authentication with an exception in handleConnection    *)
(*   SpecClose     connections that close, and their removal timeouts      *)
(*   SpecGuarded   joinRoom events through the guard and the handler       *)
(*   SpecConcurrent admission checks that await the store together         *)
(***************************************************************************)
EXTENDS Integers, Sequences, FiniteSets, TLC

VARIABLES
  \* ---- transport and session registry ----
  open,            \* socket id -> the transport connection is open (client.connected)
  authPc,          \* socket id -> "idle" | "verifying" | "done": ChatGateway.handleConnection
  handshake,       \* socket id -> client.handshake (token locations)
  authResult,      \* socket id -> value returned by ConnectionManager.handleConnection
  connections,     \* ConnectionManager.connections: socket id -> ConnectionState
  adapterRooms,    \* socket id -> rooms the transport has the socket joined to
  stats,           \* StatsManager.stats
  emitted,         \* socket id -> events the server emitted to that client, in order
  heartbeatIntervals, \* ChatGateway.heartbeatIntervals: socket id -> next firing time
  disconnectTimers,   \* armed disconnect timeouts: socket id -> firing time
  roomOps,         \* socket id -> joinRoom/leaveRoom calls applied to its session
  purged,          \* socket ids whose session was deleted from the registry
  disconnectNotices, \* socket id -> rooms handleDisconnection emitted 'userLeft' to
  purgeTimers      \* armed removal timeouts of handleDisconnection: socket id -> firing time

VARIABLES
  \* ---- AI orchestrator ----
  fallbackOrder,   \* AIOrchestrationService.fallbackOrder, fixed at construction
  behave,          \* environment: how each provider's upstream stream ends
  aiMode,          \* "none" | "gateway" (handleAiMessage) | "fallback" | "direct"
  aiIn,            \* inputs of the running request
  aiPc,            \* "idle" | "loop" | "streaming" | "done"
  aiIdx,           \* loop variable i of streamCompletionWithFallback, 1-based
  aiActive,        \* provider whose generateCompletionStream is running
  aiFull,          \* fullResponse accumulated by the running provider
  cbLog,           \* invocations of the caller's callbacks, in order
  aiResult,        \* settlement of the request's promise
  aiEmitted,       \* events emitted to the sending client (client.emit)
  aiBroadcast,     \* events emitted to the room (server.to(roomId).emit)
  aiAttempts       \* providers whose stream was started, in order

VARIABLES
  \* ---- timers ----
  now,             \* the clock, in milliseconds
  probes,          \* socket id -> heartbeatRequest probes sent, awaiting an ack, acked
  lastCleanup      \* time of the latest run of the periodic cleanup

VARIABLES
  \* ---- delivery coordinator ----
  handle,          \* message id -> the handleMessage call that created it
  calls            \* <<message id, socket id>> -> the sendMessageWithRetry call

VARIABLES
  \* ---- admission gate ----
  origin,          \* socket id -> address and trust markers of the handshake
  redis,           \* throttle key -> counter held by the store (live keys only)
  rlStats,         \* RateLimitingService.stats
  window,          \* throttle key -> results of the checks since the key was set
  verdicts,        \* socket id -> results of canActivate, in order
  ownChecks,       \* <<socket id, event type>> -> results of that client's checks
                   \* of that type since its bucket was last set
  retryHints,      \* socket id -> the retryAfter values sent to it, in order
  evals            \* the increments the store has run, each with the check
                   \* that awaits (or has taken) its reply

aiVars == <<fallbackOrder, behave, aiMode, aiIn, aiPc, aiIdx, aiActive, aiFull,
            cbLog, aiResult, aiEmitted, aiBroadcast, aiAttempts>>

regVars == <<open, authPc, handshake, authResult, connections, adapterRooms,
             stats, emitted, heartbeatIntervals, disconnectTimers, roomOps, purged,
             disconnectNotices, purgeTimers>>

hbVars == <<now, probes, lastCleanup>>

delVars == <<handle, calls>>

admVars == <<origin, redis, rlStats, window, verdicts, ownChecks, retryHints, evals>>

vars == <<regVars, aiVars, hbVars, delVars, admVars>>

\* What the actions of each subsystem leave alone.
notAI == <<regVars, hbVars, delVars, admVars>>
notRegistry == <<aiVars, hbVars, delVars, admVars>>
notHeartbeat == <<aiVars, delVars, admVars>>
notDelivery == <<aiVars, hbVars, admVars>>
notAdmission == <<aiVars, hbVars, delVars>>

(***************************************************************************)
(* Session registry and gateway connection lifecycle                       *)
(* connection-manager.service.ts, chat.gateway.ts, stats-manager.service.ts*)
(***************************************************************************)

\* Socket ids.  Every transport connection has a fresh id.
Sockets == {"s1", "s2", "s3"}

\* Sockets that connect in the registry specification.
RegSockets == {"s1", "s2"}

RoomIds == {"general", "r1"}

\* Total number of joinRoom/leaveRoom events the registry specification handles.
MaxRoomOps == 3

\* A handshake location that holds no token (falsy in the source).
NoToken == ""

\* An auth.token that is not a string (the number 12345): String() of it is
\* no JWT, and typeof tells it from a string.
NonStringToken == "12345"

\* Bearer tokens and the claims JwtService.verifyAsync decodes from them:
\* sigOk: the signature verifies with JWT_SECRET; expired: exp is in the past;
\* sub and username are "" when the claim is absent.
Tokens == {"tok_u1", "tok_u2", "tok_expired", "tok_forged", "tok_nosub"}

TokenClaims(t) ==
  CASE t = "tok_u1"      -> [sigOk |-> TRUE,  expired |-> FALSE, sub |-> "u1", username |-> "alice"]
    [] t = "tok_u2"      -> [sigOk |-> TRUE,  expired |-> FALSE, sub |-> "u2", username |-> ""]
    [] t = "tok_expired" -> [sigOk |-> TRUE,  expired |-> TRUE,  sub |-> "u1", username |-> "alice"]
    [] t = "tok_forged"  -> [sigOk |-> FALSE, expired |-> FALSE, sub |-> "u1", username |-> "alice"]
    [] t = "tok_nosub"   -> [sigOk |-> TRUE,  expired |-> FALSE, sub |-> "",   username |-> "bob"]
    [] OTHER             -> [sigOk |-> FALSE, expired |-> FALSE, sub |-> "",   username |-> ""]

\* client.handshake: auth.token, the authorization header split at ' '
\* (<<>> when the header is absent) and query.token as a list of values
\* (<<>> when absent, one element for a plain string).
Handshake(a, h, q) == [auth |-> a, header |-> h, query |-> q]

Handshakes ==
  { Handshake(NoToken, <<>>, <<>>) }
  \cup { Handshake(t, <<>>, <<>>) : t \in Tokens }
  \cup { Handshake(NoToken, <<"Bearer", "tok_u1">>, <<>>),
         Handshake(NoToken, <<"bearer", "tok_u2">>, <<>>),
         Handshake(NoToken, <<"Basic", "tok_u1">>, <<"tok_u1">>),
         Handshake(NoToken, <<>>, <<"tok_u2">>),
         Handshake(NoToken, <<>>, <<"tok_forged", "tok_u1">>),
         Handshake("tok_expired", <<"Bearer", "tok_u1">>, <<>>),
         Handshake(NonStringToken, <<"Bearer", "tok_u1">>, <<>>) }

\* type?.toLowerCase() === 'bearer'
IsBearer(type) == type \in {"Bearer", "bearer", "BEARER"}

\* ConnectionManager.handleConnection, token extraction: the first of
\* auth.token, authorization header, query.token that is present decides.
extractToken(hs) ==
  IF hs.auth # NoToken THEN hs.auth
  ELSE IF hs.header # <<>>
    THEN IF Len(hs.header) >= 2 /\ IsBearer(hs.header[1]) /\ hs.header[2] # NoToken
           THEN hs.header[2] ELSE NoToken
  ELSE IF hs.query # <<>> THEN hs.query[1]
  ELSE NoToken

\* JwtService.verifyAsync(token, {secret}): the payload when the signature
\* verifies and the token is not expired; rejects otherwise (Null).
Null == [sigOk |-> FALSE, expired |-> FALSE, sub |-> "", username |-> ""]

\* Mutation: the token is decoded without being verified.
verifyAsync_decode(t) == TokenClaims(t)

verifyAsync(t) ==
  IF TokenClaims(t).sigOk /\ ~TokenClaims(t).expired THEN TokenClaims(t) ELSE Null

\* extractTokenFromSocket of the ws-jwt strategy: the locations are tried in
\* turn (one that yields no token does not stop the search) and only a plain
\* string counts as a token in auth and in the query.
extractTokenFromSocket(hs) ==
  IF hs.auth # NoToken /\ hs.auth # NonStringToken THEN hs.auth
  ELSE IF Len(hs.header) >= 2 /\ IsBearer(hs.header[1]) /\ hs.header[2] # NoToken
    THEN hs.header[2]
  ELSE IF Len(hs.query) = 1 /\ hs.query[1] # NoToken THEN hs.query[1]
  ELSE NoToken

\* WsJwtAuthGuard on an inbound event: passport-jwt verifies the token of the
\* handshake and WsJwtStrategy.validate requires the sub claim.
wsJwtAuthGuard(hs) ==
  LET t == extractTokenFromSocket(hs) IN
    /\ t # NoToken
    /\ verifyAsync(t) # Null
    /\ verifyAsync(t).sub # ""

\* payload.username || `user-${payload.sub}`
displayName(payload) ==
  IF payload.username # "" THEN payload.username
  ELSE CASE payload.sub = "u1" -> "user-u1"
         [] payload.sub = "u2" -> "user-u2"
         [] OTHER -> "user-"

\* ConnectionState.disconnectedAt of a session that never disconnected.
NoTime == 0 - 1

\* Mutation: the session is keyed by the display name instead of the subject.
NewSession_username(payload) ==
  [userId |-> displayName(payload), username |-> displayName(payload),
   status |-> "connected", rooms |-> {}, messageQueue |-> <<>>,
   connectedAt |-> 0, disconnectedAt |-> NoTime]

\* The ConnectionState stored by handleConnection (connectedAt is filled in
\* with the clock by the caller).
NewSession(payload) ==
  [userId |-> payload.sub, username |-> displayName(payload),
   status |-> "connected", rooms |-> {}, messageQueue |-> <<>>,
   connectedAt |-> 0, disconnectedAt |-> NoTime]

\* ChatGateway: period of the heartbeatRequest probes and delay of the
\* disconnect timeout, in milliseconds.
heartbeatIntervalMs == 30000
disconnectTimeoutMs == 90000

\* ConnectionManager: how long a disconnected session is kept, and the period
\* of the periodic cleanup, in milliseconds.
gracePeriodMs == 5 * 60 * 1000
cleanupIntervalMs == 60000

\* Map operations on ConnectionManager.connections.
MapSet(m, k, v) == [x \in DOMAIN m \cup {k} |-> IF x = k THEN v ELSE m[x]]
MapDelete(m, k) == [x \in DOMAIN m \ {k} |-> m[x]]

\* StatsManager.
incrementConnectedUsers(st) == [st EXCEPT !.connectedUsers = @ + 1]
decrementConnectedUsers(st) ==
  IF st.connectedUsers > 0 THEN [st EXCEPT !.connectedUsers = @ - 1] ELSE st
incrementTotalMessages(st) == [st EXCEPT !.totalMessages = @ + 1]
incrementRoomCount(st) == [st EXCEPT !.totalRooms = @ + 1]
decrementRoomCount(st) ==
  IF st.totalRooms > 0 THEN [st EXCEPT !.totalRooms = @ - 1] ELSE st
recordDeliverySuccess(st) == [st EXCEPT !.deliverySuccess = @ + 1]
recordDeliveryFailure(st) == [st EXCEPT !.deliveryFailures = @ + 1]

RECURSIVE recordDeliveryFailures(_, _)
\* recordDeliveryFailure called n times.
recordDeliveryFailures(st, n) ==
  IF n = 0 THEN st ELSE recordDeliveryFailures(recordDeliveryFailure(st), n - 1)

RECURSIVE decrementRoomCounts(_, _)
\* decrementRoomCount called n times.
decrementRoomCounts(st, n) ==
  IF n = 0 THEN st ELSE decrementRoomCounts(decrementRoomCount(st), n - 1)

RECURSIVE SeqOfSet(_)
\* The elements of a finite set in some order.
SeqOfSet(S) == IF S = {} THEN <<>>
               ELSE LET x == CHOOSE y \in S : TRUE IN <<x>> \o SeqOfSet(S \ {x})

\* Mutation: handleDisconnection leaves the pending messages in the queue.
handleDisconnection_keep(conns, s) ==
  IF s \in DOMAIN conns
    THEN [conns EXCEPT ![s].status = "disconnected",
                       ![s].disconnectedAt = now,
                       ![s].rooms = {}]
    ELSE conns

\* Mutation: joining a room the session is already in takes it out again.
joinRoom_toggle(conn, r) ==
  [conn EXCEPT !.rooms = IF r \in @ THEN @ \ {r} ELSE @ \cup {r}]

\* ConnectionManager.joinRoom / leaveRoom on the ConnectionState.
joinRoom(conn, r) == [conn EXCEPT !.rooms = @ \cup {r}]
leaveRoom(conn, r) == [conn EXCEPT !.rooms = @ \ {r}]

\* Messages of a queue that processPendingMessages discards as
\* non-persistent (every event other than 'chat' and 'notification').
Discarded(queue) ==
  Cardinality({i \in DOMAIN queue : queue[i].event \notin {"chat", "notification"}})

\* ConnectionManager.handleDisconnection: the registry afterwards.
handleDisconnection(conns, s) ==
  IF s \in DOMAIN conns
    THEN [conns EXCEPT ![s].status = "disconnected",
                       ![s].disconnectedAt = now,
                       ![s].messageQueue = <<>>,
                       ![s].rooms = {}]
    ELSE conns

\* ConnectionManager.handleDisconnection: the counters afterwards.
handleDisconnectionStats(conns, st, s) ==
  IF s \in DOMAIN conns
    THEN LET st1 == decrementConnectedUsers(st)
             st2 == recordDeliveryFailures(st1, Discarded(conns[s].messageQueue))
         IN decrementRoomCounts(st2, Cardinality(conns[s].rooms))
    ELSE st

InitRegistry ==
  /\ open = [s \in Sockets |-> FALSE]
  /\ authPc = [s \in Sockets |-> "idle"]
  /\ handshake = [s \in Sockets |-> Handshake(NoToken, <<>>, <<>>)]
  /\ authResult = [s \in Sockets |-> FALSE]
  /\ connections = << >>
  /\ adapterRooms = [s \in Sockets |-> {}]
  /\ stats = [connectedUsers |-> 0, totalMessages |-> 0, totalRooms |-> 0,
              deliverySuccess |-> 0, deliveryFailures |-> 0]
  /\ emitted = [s \in Sockets |-> <<>>]
  /\ heartbeatIntervals = << >>
  /\ disconnectTimers = << >>
  /\ roomOps = [s \in Sockets |-> <<>>]
  /\ purged = {}
  /\ disconnectNotices = [s \in Sockets |-> <<>>]
  /\ purgeTimers = << >>

\* The transport connection of s closes (by either side): socket.io takes the
\* socket out of its rooms and emits 'disconnect'; ChatGateway.handleDisconnect
\* runs handleDisconnection and cleanupHeartbeat, and the 'disconnect'
\* listener registered by initializeHeartbeat clears the disconnect timeout.
closeSocket(s) ==
  /\ open' = [open EXCEPT ![s] = FALSE]
  /\ adapterRooms' = [adapterRooms EXCEPT ![s] = {}]
  /\ connections' = handleDisconnection(connections, s)
  /\ stats' = handleDisconnectionStats(connections, stats, s)
  /\ roomOps' = [roomOps EXCEPT ![s] =
       IF s \in DOMAIN connections
         THEN @ \o [i \in 1..Cardinality(connections[s].rooms) |->
                      <<"leave", SeqOfSet(connections[s].rooms)[i]>>]
         ELSE @]
  /\ heartbeatIntervals' = MapDelete(heartbeatIntervals, s)
  /\ disconnectTimers' = MapDelete(disconnectTimers, s)
  /\ disconnectNotices' = [disconnectNotices EXCEPT ![s] =
       IF s \in DOMAIN connections
         THEN @ \o SeqOfSet(connections[s].rooms) ELSE @]
  /\ purgeTimers' = IF s \in DOMAIN connections
                      THEN MapSet(purgeTimers, s, now + gracePeriodMs)
                      ELSE purgeTimers

\* A client connects.  ChatGateway.handleConnection calls
\* ConnectionManager.handleConnection, which extracts the token; without a
\* token it emits 'error' and returns false, and the gateway disconnects the
\* client; with a token it awaits verifyAsync.
handleConnection(s) ==
  /\ s \in RegSockets
  /\ authPc[s] = "idle" /\ ~open[s]
  /\ \E hs \in Handshakes :
       /\ handshake' = [handshake EXCEPT ![s] = hs]
       /\ IF extractToken(hs) = NoToken
            THEN /\ emitted' = [emitted EXCEPT ![s] = @ \o <<"error", "disconnect">>]
                 /\ authPc' = [authPc EXCEPT ![s] = "done"]
                 /\ open' = open
            ELSE /\ emitted' = emitted
                 /\ authPc' = [authPc EXCEPT ![s] = "verifying"]
                 /\ open' = [open EXCEPT ![s] = TRUE]
  /\ UNCHANGED <<authResult, connections, adapterRooms, stats,
                 heartbeatIntervals, disconnectTimers, disconnectNotices, purgeTimers, roomOps, purged>>
  /\ UNCHANGED notRegistry

\* The client of the closed socket `old` connects again with the same
\* handshake: the transport gives the new connection the fresh socket id
\* `new`, and handleConnection starts for it as for any connection.
handleReconnection(old, new) ==
  /\ authPc[old] = "done" /\ ~open[old]
  /\ authPc[new] = "idle" /\ ~open[new]
  /\ extractToken(handshake[old]) # NoToken
  /\ handshake' = [handshake EXCEPT ![new] = handshake[old]]
  /\ authPc' = [authPc EXCEPT ![new] = "verifying"]
  /\ open' = [open EXCEPT ![new] = TRUE]
  /\ UNCHANGED <<emitted, authResult, connections, adapterRooms, stats,
                 heartbeatIntervals, disconnectTimers, disconnectNotices, purgeTimers, roomOps, purged>>
  /\ UNCHANGED notRegistry

\* verifyAsync settles and handleConnection runs to its end; on success the
\* gateway starts the heartbeat (initializeHeartbeat), on failure it
\* disconnects the client.
AuthComplete(s) ==
  /\ authPc[s] = "verifying"
  /\ authPc' = [authPc EXCEPT ![s] = "done"]
  /\ LET payload == verifyAsync(extractToken(handshake[s])) IN
       IF payload = Null
         THEN \* .catch emits 'error' and yields null; !payload emits again
              /\ emitted' = [emitted EXCEPT ![s] = @ \o <<"error", "error", "disconnect">>]
              /\ authResult' = [authResult EXCEPT ![s] = FALSE]
              /\ IF open[s]
                   THEN closeSocket(s)
                   ELSE UNCHANGED <<open, adapterRooms, connections, stats, roomOps,
                                    heartbeatIntervals, disconnectTimers, disconnectNotices, purgeTimers>>
       ELSE IF payload.sub = ""
         THEN /\ emitted' = [emitted EXCEPT ![s] = @ \o <<"error", "disconnect">>]
              /\ authResult' = [authResult EXCEPT ![s] = FALSE]
              /\ IF open[s]
                   THEN closeSocket(s)
                   ELSE UNCHANGED <<open, adapterRooms, connections, stats, roomOps,
                                    heartbeatIntervals, disconnectTimers, disconnectNotices, purgeTimers>>
       ELSE   /\ connections' = MapSet(connections, s,
                                       [NewSession(payload) EXCEPT !.connectedAt = now])
              /\ stats' = incrementConnectedUsers(stats)
              /\ emitted' = [emitted EXCEPT ![s] = Append(@, "connected")]
              /\ authResult' = [authResult EXCEPT ![s] = TRUE]
              /\ heartbeatIntervals' =
                   MapSet(heartbeatIntervals, s, now + heartbeatIntervalMs)
              /\ disconnectTimers' =
                   MapSet(disconnectTimers, s, now + disconnectTimeoutMs)
              /\ UNCHANGED <<open, adapterRooms, roomOps, disconnectNotices,
                             purgeTimers>>
  /\ UNCHANGED <<handshake, purged>>
  /\ UNCHANGED notRegistry

\* ConnectionManager.handleConnection throws after the verification (an
\* exception that none of its checks expects): its catch block logs and
\* returns false, and the gateway disconnects the client.
handleConnectionThrows(s) ==
  /\ authPc[s] = "verifying"
  /\ authPc' = [authPc EXCEPT ![s] = "done"]
  /\ authResult' = [authResult EXCEPT ![s] = FALSE]
  /\ emitted' = [emitted EXCEPT ![s] = Append(@, "disconnect")]
  /\ IF open[s]
       THEN closeSocket(s)
       ELSE UNCHANGED <<open, adapterRooms, connections, stats, roomOps,
                        heartbeatIntervals, disconnectTimers, disconnectNotices,
                        purgeTimers>>
  /\ UNCHANGED <<handshake, purged>>
  /\ UNCHANGED notRegistry

RoomOpsLeft == Len(roomOps["s1"]) + Len(roomOps["s2"]) + Len(roomOps["s3"]) < MaxRoomOps

\* ChatGateway.handleJoinRoom: client.join, then ConnectionManager.joinRoom,
\* which changes the session (and the room counter) only when the registry
\* holds one for the socket.
joinRoomBody(s, r) ==
  /\ adapterRooms' = [adapterRooms EXCEPT ![s] = @ \cup {r}]
  /\ IF s \in DOMAIN connections
       THEN /\ connections' = [connections EXCEPT ![s] = joinRoom(@, r)]
            /\ stats' = incrementRoomCount(stats)
            /\ roomOps' = [roomOps EXCEPT ![s] = Append(@, <<"join", r>>)]
       ELSE UNCHANGED <<connections, stats, roomOps>>

\* The joinRoom event of an authenticated client, the rate-limit guard of
\* the handler left out.
handleJoinRoom(s, r) ==
  /\ open[s] /\ RoomOpsLeft
  /\ wsJwtAuthGuard(handshake[s])
  /\ joinRoomBody(s, r)
  /\ UNCHANGED <<open, authPc, handshake, authResult, emitted,
                 heartbeatIntervals, disconnectTimers, disconnectNotices, purgeTimers, purged>>
  /\ UNCHANGED notRegistry

\* ChatGateway.handleLeaveRoom: client.leave, then ConnectionManager.leaveRoom.
handleLeaveRoom(s, r) ==
  /\ open[s] /\ RoomOpsLeft
  /\ wsJwtAuthGuard(handshake[s])
  /\ adapterRooms' = [adapterRooms EXCEPT ![s] = @ \ {r}]
  /\ IF s \in DOMAIN connections
       THEN /\ connections' = [connections EXCEPT ![s] = leaveRoom(@, r)]
            /\ stats' = decrementRoomCount(stats)
            /\ roomOps' = [roomOps EXCEPT ![s] = Append(@, <<"leave", r>>)]
       ELSE UNCHANGED <<connections, stats, roomOps>>
  /\ UNCHANGED <<open, authPc, handshake, authResult, emitted,
                 heartbeatIntervals, disconnectTimers, disconnectNotices, purgeTimers, purged>>
  /\ UNCHANGED notRegistry

\* The transport connection closes: ChatGateway.handleDisconnect.
handleDisconnect(s) ==
  /\ open[s]
  /\ closeSocket(s)
  /\ UNCHANGED <<authPc, handshake, authResult, emitted, purged>>
  /\ UNCHANGED notRegistry

\* The body of the setTimeout callback armed by handleDisconnection: the
\* session is deleted if it is still in the registry and still disconnected.
removeStale(s) ==
  /\ purgeTimers' = MapDelete(purgeTimers, s)
  /\ IF s \in DOMAIN connections /\ connections[s].status = "disconnected"
       THEN /\ connections' = MapDelete(connections, s)
            /\ purged' = purged \cup {s}
       ELSE UNCHANGED <<connections, purged>>

\* The removal timeout of s fires, with the clock left out: some time after
\* the disconnect.
purgeConnection(s) ==
  /\ s \in DOMAIN purgeTimers
  /\ removeStale(s)
  /\ UNCHANGED <<open, authPc, handshake, authResult, adapterRooms, stats, emitted,
                 heartbeatIntervals, disconnectTimers, disconnectNotices, roomOps>>
  /\ UNCHANGED notRegistry

(***************************************************************************)
(* Heartbeat monitor                                                       *)
(* chat.gateway.ts: initializeHeartbeat, cleanupHeartbeat                  *)
(***************************************************************************)

\* Largest number of heartbeatRequest probes sent to one socket.
MaxProbes == 4

NoProbes == [sent |-> 0, pending |-> 0, acked |-> 0]

\* No connection has been probed and the clock is at its origin.
IdleHeartbeat ==
  /\ now = 0
  /\ probes = [s \in Sockets |-> NoProbes]
  /\ lastCleanup = 0

\* The periodic cleanup is due at every multiple of cleanupIntervalMs.
CleanupDue ==
  now > 0 /\ now % cleanupIntervalMs = 0 /\ lastCleanup < now

\* The next firing time of the periodic cleanup.  (A run over an empty
\* registry does nothing and is left out.)
NextCleanup ==
  IF DOMAIN connections = {} THEN {}
  ELSE IF CleanupDue THEN {now}
  ELSE {(now \div cleanupIntervalMs + 1) * cleanupIntervalMs}

\* The firing times of the heartbeat timers that are armed.
ArmedTimers ==
  {heartbeatIntervals[s] : s \in DOMAIN heartbeatIntervals}
    \cup {disconnectTimers[s] : s \in DOMAIN disconnectTimers}

\* Time passes until the next of the given timers is due; a timer that is due
\* fires before the clock moves on.
AdvanceClock(timers) ==
  /\ timers # {}
  /\ \A t \in timers : t > now
  /\ now' = CHOOSE t \in timers : \A u \in timers : t <= u
  /\ UNCHANGED <<probes, lastCleanup, regVars>>
  /\ UNCHANGED notHeartbeat

\* The clock of the heartbeat monitor: it runs to the last heartbeat
\* deadline, which comes before any removal timeout (gracePeriodMs is longer
\* than every connection's disconnectTimeoutMs taken together).
Tick == AdvanceClock(ArmedTimers)

\* The firing times of all the timers that are armed.
AllTimers ==
  ArmedTimers \cup {purgeTimers[s] : s \in DOMAIN purgeTimers} \cup NextCleanup

\* The clock of the whole server.
TickAll == AdvanceClock(AllTimers)

\* The setInterval callback of initializeHeartbeat: heartbeatRequest is
\* emitted with an acknowledgment callback and the interval is due again
\* heartbeatIntervalMs later.
HeartbeatInterval(s) ==
  /\ s \in DOMAIN heartbeatIntervals
  /\ heartbeatIntervals[s] = now
  /\ probes[s].sent < MaxProbes
  /\ emitted' = [emitted EXCEPT ![s] = Append(@, "heartbeatRequest")]
  /\ probes' = [probes EXCEPT ![s].sent = @ + 1, ![s].pending = @ + 1]
  /\ heartbeatIntervals' = [heartbeatIntervals EXCEPT ![s] = now + heartbeatIntervalMs]
  /\ UNCHANGED <<open, authPc, handshake, authResult, connections, adapterRooms,
                 stats, disconnectTimers, disconnectNotices, purgeTimers, roomOps, purged, now, lastCleanup>>
  /\ UNCHANGED notHeartbeat

\* The client acknowledges a heartbeatRequest.  The callback disconnects the
\* client when the response is falsy and does nothing otherwise.
HeartbeatResponse(s, truthy) ==
  /\ open[s]
  /\ probes[s].pending > 0
  /\ probes' = [probes EXCEPT ![s].pending = @ - 1, ![s].acked = @ + 1]
  /\ IF truthy
       THEN UNCHANGED <<open, adapterRooms, connections, stats, roomOps,
                        heartbeatIntervals, disconnectTimers, disconnectNotices, purgeTimers, emitted>>
       ELSE /\ closeSocket(s)
            /\ emitted' = [emitted EXCEPT ![s] = Append(@, "disconnect")]
  /\ UNCHANGED <<authPc, handshake, authResult, purged, now, lastCleanup>>
  /\ UNCHANGED notHeartbeat

\* Mutation: the timeout body tests client.disconnected instead of its
\* negation, so a connected client is left alone.
DisconnectTimeout_inverted(s) ==
  /\ s \in DOMAIN disconnectTimers
  /\ disconnectTimers[s] = now
  /\ disconnectTimers' = MapDelete(disconnectTimers, s)
  /\ UNCHANGED <<open, adapterRooms, connections, stats, roomOps,
                 heartbeatIntervals, emitted, disconnectNotices, purgeTimers>>
  /\ UNCHANGED <<authPc, handshake, authResult, purged, now, probes, lastCleanup>>
  /\ UNCHANGED notHeartbeat

\* The setTimeout callback of initializeHeartbeat, disconnectTimeoutMs after
\* the heartbeat was initialized: a client that is still connected is
\* disconnected, whatever it acknowledged.  (A disconnected client has no
\* armed timeout: the 'disconnect' listener cleared it.)
DisconnectTimeout(s) ==
  /\ s \in DOMAIN disconnectTimers
  /\ disconnectTimers[s] = now
  /\ IF open[s]
       THEN /\ closeSocket(s)
            /\ emitted' = [emitted EXCEPT ![s] = Append(@, "disconnect")]
       ELSE /\ disconnectTimers' = MapDelete(disconnectTimers, s)
            /\ UNCHANGED <<open, adapterRooms, connections, stats, roomOps,
                           heartbeatIntervals, emitted, disconnectNotices,
                           purgeTimers>>
  /\ UNCHANGED <<authPc, handshake, authResult, purged, now, probes, lastCleanup>>
  /\ UNCHANGED notHeartbeat

\* The removal timeout armed by handleDisconnection fires, gracePeriodMs
\* after the disconnect.
RemovalTimeout(s) ==
  /\ s \in DOMAIN purgeTimers
  /\ purgeTimers[s] = now
  /\ removeStale(s)
  /\ UNCHANGED <<open, authPc, handshake, authResult, adapterRooms, stats, emitted,
                 heartbeatIntervals, disconnectTimers, disconnectNotices, roomOps>>
  /\ UNCHANGED <<now, probes, lastCleanup>>
  /\ UNCHANGED notHeartbeat

\* Mutation: the periodic cleanup deletes every disconnected session.
Stale_early ==
  {s \in DOMAIN connections : connections[s].status = "disconnected"}

\* The sessions the periodic cleanup deletes: disconnected for longer than
\* gracePeriodMs.
Stale ==
  {s \in DOMAIN connections :
     /\ connections[s].status = "disconnected"
     /\ connections[s].disconnectedAt # NoTime
     /\ now - connections[s].disconnectedAt > gracePeriodMs}

\* The setInterval callback of initializePeriodicCleanup.
PeriodicCleanup ==
  /\ DOMAIN connections # {}
  /\ CleanupDue
  /\ lastCleanup' = now
  /\ connections' = [s \in DOMAIN connections \ Stale |-> connections[s]]
  /\ purged' = purged \cup Stale
  /\ UNCHANGED <<open, authPc, handshake, authResult, adapterRooms, stats, emitted,
                 heartbeatIntervals, disconnectTimers, disconnectNotices, purgeTimers,
                 roomOps>>
  /\ UNCHANGED <<now, probes>>
  /\ UNCHANGED notHeartbeat

(***************************************************************************)
(* Delivery coordinator                                                    *)
(* connection-manager.service.ts: sendMessageWithRetry,                    *)
(* sendMessageWithTimeout; chat.gateway.ts: handleMessage                  *)
(***************************************************************************)

\* ConnectionManager.retryConfig.
maxRetries == 3
backoffMs == 1000
timeoutMs == 5000

\* Message ids (uuidv4 values) and message contents.
MessageIds == {"m1"}

\* The message ids of the specification in which one sender sends two
\* messages.
OverlapMessageIds == {"m1", "m2"}
Contents == {"hi", "bye"}

\* Mutation: the delay before the next attempt does not grow.
backoffDelay_constant(retries) == backoffMs

\* backoffMs * Math.pow(2, retries)
backoffDelay(retries) == backoffMs * 2^retries

\* client.data.user as attached by WsJwtStrategy.validate.
wsUser(hs) ==
  LET payload == verifyAsync(extractTokenFromSocket(hs)) IN
    [id |-> payload.sub, username |-> displayName(payload)]

\* The newMessage payload built by handleMessage.
newMessage(m, content, r, user) ==
  [id |-> m, content |-> content, roomId |-> r, user |-> user]

\* The PendingMessage pushed by sendMessageWithRetry.
PendingMessage(m, data) == [id |-> m, event |-> "newMessage", data |-> data]

\* messageQueue.filter(msg => msg.id !== messageId)
removeFromQueue(queue, m) == SelectSeq(queue, LAMBDA msg : msg.id # m)

\* sendMessageWithRetry up to its first await: the message is queued and
\* emitted for the first time.  elapsed and sentAt are measured from the
\* start of the call, outcomes records how each attempt ended.
StartedCall(data) ==
  [pc |-> "waiting", queued |-> TRUE, retries |-> 0, elapsed |-> 0,
   sentAt |-> <<0>>, outcomes |-> <<>>, result |-> FALSE, data |-> data]

\* sendMessageWithRetry for a socket without ConnectionState: false at once.
NoConnectionCall(data) ==
  [pc |-> "returned", queued |-> FALSE, retries |-> 0, elapsed |-> 0,
   sentAt |-> <<>>, outcomes |-> <<>>, result |-> FALSE, data |-> data]

\* Responses of handleMessage: not yet returned, the success object, and the
\* WsException 'Failed to send message'.
NoResponse ==
  [status |-> "pending", success |-> FALSE, deliveredCount |-> 0, totalRecipients |-> 0]
Delivered(d, t) ==
  [status |-> "returned", success |-> TRUE, deliveredCount |-> d, totalRecipients |-> t]
FailedToSend ==
  [status |-> "exception", success |-> FALSE, deliveredCount |-> 0, totalRecipients |-> 0]

IdleDelivery ==
  /\ handle = << >>
  /\ calls = << >>

\* server.in(roomId).allSockets()
allSockets(r) == {s \in Sockets : r \in adapterRooms[s]}

\* ChatGateway.handleMessage up to `await Promise.all`: the message gets the
\* fresh id m (uuidv4) and sendMessageWithRetry is started for every socket
\* of the room, the sender's own socket included when it has joined the room.
handleMessage(m, c, r, content) ==
  /\ open[c]
  /\ wsJwtAuthGuard(handshake[c])
  /\ m \notin DOMAIN handle
  /\ LET recipients == allSockets(r)
         data == newMessage(m, content, r, wsUser(handshake[c]))
     IN /\ handle' = MapSet(handle, m,
                       [sender |-> c, roomId |-> r, content |-> content,
                        recipients |-> recipients, response |-> NoResponse])
        /\ calls' = [k \in DOMAIN calls \cup {<<m, s>> : s \in recipients} |->
                       IF k \in DOMAIN calls THEN calls[k]
                       ELSE IF k[2] \in DOMAIN connections THEN StartedCall(data)
                       ELSE NoConnectionCall(data)]
        /\ connections' = [s \in DOMAIN connections |->
                             IF s \in recipients
                               THEN [connections[s] EXCEPT
                                       !.messageQueue = Append(@, PendingMessage(m, data))]
                               ELSE connections[s]]
  /\ UNCHANGED <<open, authPc, handshake, authResult, adapterRooms, stats, emitted,
                 heartbeatIntervals, disconnectTimers, disconnectNotices, purgeTimers, roomOps, purged>>
  /\ UNCHANGED notDelivery

\* The client invokes the acknowledgment callback of an emit (at once, in the
\* model's time).  With
\* ack.received === true the message leaves the queue, the success is
\* counted and the call returns true; any other acknowledgment sends the
\* call to its backoff delay.
AckReceived(m, s, received) ==
  /\ <<m, s>> \in DOMAIN calls
  /\ calls[<<m, s>>].pc = "waiting"
  /\ open[s]
  /\ IF received
       THEN /\ calls' = [calls EXCEPT ![<<m, s>>] =
                           [@ EXCEPT !.pc = "returned", !.result = TRUE,
                                     !.outcomes = Append(@, "ack")]]
            /\ connections' = [connections EXCEPT
                                 ![s].messageQueue = removeFromQueue(@, m)]
            /\ stats' = recordDeliverySuccess(stats)
       ELSE /\ calls' = [calls EXCEPT ![<<m, s>>] =
                           [@ EXCEPT !.pc = "backoff",
                                     !.outcomes = Append(@, "nack")]]
            /\ UNCHANGED <<connections, stats>>
  /\ UNCHANGED <<open, authPc, handshake, authResult, adapterRooms, emitted,
                 heartbeatIntervals, disconnectTimers, disconnectNotices, purgeTimers, roomOps, purged, handle>>
  /\ UNCHANGED notDelivery

\* The timeout of sendMessageWithTimeout fires, timeoutMs after the emit: the
\* attempt resolves false.  (The promise of sendMessageWithTimeout is never
\* rejected, socket.emit of a plain payload under a non-reserved event name
\* does not throw, so the catch branch of the retry loop is not taken.)
AckTimeout(m, s) ==
  /\ <<m, s>> \in DOMAIN calls
  /\ calls[<<m, s>>].pc = "waiting"
  /\ calls' = [calls EXCEPT ![<<m, s>>] =
                 [@ EXCEPT !.pc = "backoff",
                           !.elapsed = @ + timeoutMs,
                           !.outcomes = Append(@, "timeout")]]
  /\ UNCHANGED <<regVars, handle>>
  /\ UNCHANGED notDelivery

\* The backoff delay ends and retries is incremented: either the loop emits
\* the event again, or retries has reached maxRetries and the call counts a
\* delivery failure and returns false, leaving the queue as it is.
BackoffElapsed(m, s) ==
  /\ <<m, s>> \in DOMAIN calls
  /\ calls[<<m, s>>].pc = "backoff"
  /\ LET c == calls[<<m, s>>]
         t == c.elapsed + backoffDelay(c.retries)
     IN IF c.retries + 1 < maxRetries
          THEN /\ calls' = [calls EXCEPT ![<<m, s>>] =
                              [@ EXCEPT !.pc = "waiting", !.retries = @ + 1,
                                        !.elapsed = t, !.sentAt = Append(@, t)]]
               /\ stats' = stats
          ELSE /\ calls' = [calls EXCEPT ![<<m, s>>] =
                              [@ EXCEPT !.pc = "returned", !.retries = @ + 1,
                                        !.elapsed = t, !.result = FALSE]]
               /\ stats' = recordDeliveryFailure(stats)
  /\ UNCHANGED <<open, authPc, handshake, authResult, connections, adapterRooms,
                 emitted, heartbeatIntervals, disconnectTimers, disconnectNotices, purgeTimers, roomOps, purged,
                 handle>>
  /\ UNCHANGED notDelivery

\* Mutation: every delivery that was started counts as delivered.
deliveredCount_started(m) ==
  Cardinality(handle[m].recipients)

\* deliveryResults.filter(success => success).length
deliveredCount(m) ==
  Cardinality({s \in handle[m].recipients : calls[<<m, s>>].result})

\* ChatGateway.handleMessage after `await Promise.all`: with recipients and no
\* delivery the handler throws; otherwise the message is counted and the
\* response carries the number of deliveries and of recipients.
handleMessageReturn(m) ==
  /\ m \in DOMAIN handle
  /\ handle[m].response = NoResponse
  /\ \A s \in handle[m].recipients : calls[<<m, s>>].pc = "returned"
  /\ IF deliveredCount(m) = 0 /\ handle[m].recipients # {}
       THEN /\ handle' = [handle EXCEPT ![m].response = FailedToSend]
            /\ stats' = stats
       ELSE /\ handle' = [handle EXCEPT ![m].response =
                            Delivered(deliveredCount(m),
                                      Cardinality(handle[m].recipients))]
            /\ stats' = incrementTotalMessages(stats)
  /\ UNCHANGED <<open, authPc, handshake, authResult, connections, adapterRooms,
                 emitted, heartbeatIntervals, disconnectTimers, disconnectNotices, purgeTimers, roomOps, purged,
                 calls>>
  /\ UNCHANGED notDelivery

\* Clients that close their connection while a delivery may be pending.
Leavers == {"s2"}

\* The handshakes of the clients of the delivery specification.
DeliveryHandshake(s) ==
  CASE s = "s1" -> Handshake("tok_u1", <<>>, <<>>)
    [] s = "s2" -> Handshake("tok_u2", <<>>, <<>>)
    [] OTHER    -> Handshake(NoToken, <<"Bearer", "tok_u1">>, <<>>)

\* The registry once the clients have connected and the clients of `joined`
\* have joined room "general"; the clients of `verifying` are still inside
\* handleConnection (awaiting verifyAsync) and have no ConnectionState yet.
Established(joined, verifying) ==
  LET authed == Sockets \ verifying IN
  /\ open = [s \in Sockets |-> TRUE]
  /\ handshake = [s \in Sockets |-> DeliveryHandshake(s)]
  /\ authPc = [s \in Sockets |-> IF s \in verifying THEN "verifying" ELSE "done"]
  /\ authResult = [s \in Sockets |-> s \in authed]
  /\ connections = [s \in authed |->
       [NewSession(verifyAsync(extractToken(DeliveryHandshake(s))))
          EXCEPT !.rooms = IF s \in joined THEN {"general"} ELSE {}]]
  /\ adapterRooms = [s \in Sockets |-> IF s \in joined THEN {"general"} ELSE {}]
  /\ stats = [connectedUsers |-> Cardinality(authed), totalMessages |-> 0,
              totalRooms |-> Cardinality(joined \cap authed),
              deliverySuccess |-> 0, deliveryFailures |-> 0]
  /\ emitted = [s \in Sockets |-> IF s \in authed THEN <<"connected">> ELSE <<>>]
  /\ heartbeatIntervals = [s \in authed |-> heartbeatIntervalMs]
  /\ disconnectTimers = [s \in authed |-> disconnectTimeoutMs]
  /\ roomOps = [s \in Sockets |->
       IF s \in joined \cap authed THEN << <<"join", "general">> >> ELSE <<>>]
  /\ purged = {}
  /\ disconnectNotices = [s \in Sockets |-> <<>>]
  /\ purgeTimers = << >>

(***************************************************************************)
(* Admission gate                                                          *)
(* websocket-rate-limit.guard.ts, rate-limiting.service.ts,                *)
(* redis-throttler.storage.ts                                              *)
(***************************************************************************)

\* THROTTLE_LIMIT, the limit of rule 'global' (100 unless configured), scaled
\* down.
ThrottleLimit == 2

\* WS_THROTTLE_LIMIT, the limit of rule 'websocket-connect'.
WsThrottleLimit == ThrottleLimit + 3

\* AI_THROTTLE_LIMIT, the limit of rule 'ai-request': as in the defaults
\* (20 against 100) it is lower than THROTTLE_LIMIT.
AiThrottleLimit == ThrottleLimit - 1

\* Number of events the clients send in the admission specification: enough
\* for one client to go past the limit and for one more event.
MaxChecks == ThrottleLimit + 2

RECURSIVE SumLen(_, _)
\* Total length of the sequences f[x], x in S.
SumLen(f, S) ==
  IF S = {} THEN 0
  ELSE LET x == CHOOSE y \in S : TRUE IN Len(f[x]) + SumLen(f, S \ {x})

\* TRUSTED_IPS.
TrustedIps == {"10.0.0.9"}

\* What the guard reads of client.handshake: the x-forwarded-for and x-real-ip
\* headers ("" when absent), the peer address, auth.isAdmin === true and
\* headers['x-internal-service'] === 'true'.
Origin(forwarded, realIp, address, isAdmin, internal) ==
  [forwarded |-> forwarded, realIp |-> realIp, address |-> address,
   isAdmin |-> isAdmin, internalService |-> internal]

PlainOrigin == Origin("", "", "203.0.113.7", FALSE, FALSE)
ProxiedOrigin == Origin("203.0.113.7", "", "198.51.100.1", FALSE, FALSE)
TrustedOrigins ==
  { Origin("", "", "10.0.0.9", FALSE, FALSE),
    Origin("", "10.0.0.9", "198.51.100.1", FALSE, FALSE),
    Origin("", "", "198.51.100.2", TRUE, FALSE),
    Origin("", "", "198.51.100.2", FALSE, TRUE) }

\* WebSocketRateLimitGuard.getClientIp
getClientIp(o) ==
  IF o.forwarded # "" THEN o.forwarded
  ELSE IF o.realIp # "" THEN o.realIp
  ELSE o.address

\* WebSocketRateLimitGuard.shouldBypassRateLimit
shouldBypassRateLimit(o) ==
  \/ getClientIp(o) \in TrustedIps
  \/ o.isAdmin
  \/ o.internalService

\* context.getHandler().name of the guarded handlers that are modelled.
EventTypes == {"handleMessage", "handleJoinRoom", "handleAiMessage"}

\* (client as any).user?.id: the class-level WsJwtAuthGuard runs before the
\* rate-limit guard of the handler, and AuthGuard.canActivate stores the user
\* returned by handleRequest in the `user` property of the object getRequest
\* returned, which is the socket.
clientUserId(hs) == wsUser(hs).id

\* Mutation: the user is not part of the key.
generateClientKey_anonymous(o, userId, eventType) ==
  <<"websocket", getClientIp(o), "anonymous", eventType>>

\* WebSocketRateLimitGuard.generateClientKey
generateClientKey(o, userId, eventType) ==
  <<"websocket", getClientIp(o), userId, eventType>>

\* The user ids of the clients of the model ('anonymous' stands for a socket
\* without user).
ThrottleUsers == {"u1", "u2", "anonymous"}

\* The throttle keys of the clients of the model.
ThrottleKeys ==
  {generateClientKey(o, u, e) :
     o \in {PlainOrigin} \cup TrustedOrigins, u \in ThrottleUsers, e \in EventTypes}

\* RateLimitingService.rules in insertion order.  A path is its list of
\* segments; wild says that the rule's path ends in '*'; method is "" when
\* the rule has none.
Rule(name, segments, wild, method, ttl, limit) ==
  [name |-> name, segments |-> segments, wild |-> wild, method |-> method,
   ttl |-> ttl, limit |-> limit]

DefaultRules ==
  << Rule("global", <<>>, TRUE, "", 60, ThrottleLimit),
     Rule("auth-login", <<"auth", "okta">>, FALSE, "GET", 300, 5),
     Rule("auth-refresh", <<"auth", "refresh">>, FALSE, "POST", 60, 10),
     Rule("ai-request", <<"ai-providers">>, TRUE, "", 60, AiThrottleLimit),
     Rule("websocket-connect", <<"socket.io">>, TRUE, "", 10, WsThrottleLimit),
     Rule("health-check", <<"health">>, FALSE, "", 60, 1000) >>

\* RateLimitingService.matchesRule
matchesRule(rule, path, method) ==
  /\ ~(rule.method # "" /\ method # "" /\ rule.method # method)
  /\ IF rule.wild
       THEN /\ Len(path) >= Len(rule.segments)
            /\ SubSeq(path, 1, Len(rule.segments)) = rule.segments
       ELSE rule.segments = path

\* RateLimitingService.getRuleForRequest: the first rule that matches.
getRuleForRequest(path, method) ==
  LET hits == {i \in DOMAIN DefaultRules : matchesRule(DefaultRules[i], path, method)}
  IN DefaultRules[CHOOSE i \in hits : \A j \in hits : i <= j]

\* The rule the guard asks for: getRuleForRequest('/socket.io/events', 'POST').
WebSocketRule == getRuleForRequest(<<"socket.io", "events">>, "POST")

\* Mutation: the script's read and write are separate commands, and the
\* write of an increment that follows another one is lost.
increment_lost(store, key, ttl) ==
  IF key \in DOMAIN store
    THEN store
    ELSE MapSet(store, key, [hits |-> 1, ttl |-> ttl])

\* Mutation: a key that is missing from the store is taken for a full bucket.
increment_resume(store, key, ttl) ==
  IF key \in DOMAIN store
    THEN MapSet(store, key, [hits |-> store[key].hits + 1, ttl |-> store[key].ttl])
    ELSE MapSet(store, key, [hits |-> ThrottleLimit + 1, ttl |-> ttl])

\* The Lua script of RedisThrottlerStorage.increment: the counter of the key
\* afterwards (a missing key is set to 1 with the rule's ttl).
increment(store, key, ttl) ==
  IF key \in DOMAIN store
    THEN MapSet(store, key, [hits |-> store[key].hits + 1, ttl |-> store[key].ttl])
    ELSE MapSet(store, key, [hits |-> 1, ttl |-> ttl])

\* Mutation: the request that reaches the limit is refused already.
allowed_below(totalHits, limit) == totalHits < limit

\* RateLimitingService.checkRateLimit: record.totalHits <= rule.limit
allowed(totalHits, limit) == totalHits <= limit

IdleAdmission ==
  /\ origin = [s \in Sockets |-> PlainOrigin]
  /\ redis = << >>
  /\ rlStats = [totalRequests |-> 0, blockedRequests |-> 0]
  /\ window = [k \in ThrottleKeys |-> <<>>]
  /\ verdicts = [s \in Sockets |-> <<>>]
  /\ ownChecks = [c \in Sockets \X EventTypes |-> <<>>]
  /\ retryHints = [s \in Sockets |-> <<>>]
  /\ evals = <<>>

\* Mutation: a store that does not answer counts as a bucket that is full.
storeFailure_closed(ttl) == [totalHits |-> ThrottleLimit + 1, timeToExpire |-> ttl * 1000]

\* The catch of RedisThrottlerStorage.increment: the record returned when the
\* store does not answer.
storeFailure(ttl) == [totalHits |-> 0, timeToExpire |-> ttl * 1000]

\* Replies of the TTL command the model draws from, in seconds: the key is
\* about to expire, has one second left, or was set within this second.
TtlReplies == {0, 1, WebSocketRule.ttl}

\* timeToExpire of the record the Lua script returns, in milliseconds: ttl *
\* 1000 for a key it has just set, the reply of TTL * 1000 otherwise.
timeToExpire(store, key, ttl, ttlLeft) ==
  IF key \in DOMAIN store THEN ttlLeft * 1000 ELSE ttl * 1000

\* Math.ceil(a / b) for a >= 0.
CeilDiv(a, b) == (a + b - 1) \div b

\* RateLimitingService.checkRateLimit: resetTime - Date.now(), in
\* milliseconds: new Date(Date.now() + (record.timeToExpire * 1000)).
resetDelay(record) == record.timeToExpire * 1000

\* The retryAfter of the guard's 'error' event and WsException:
\* Math.ceil((result.resetTime.getTime() - Date.now()) / 1000), both readings
\* of the clock taken within one millisecond.
retryAfter(record) == CeilDiv(resetDelay(record), 1000)

\* The record checkRateLimit gets from the store for key: storeUp tells
\* whether the store answers the increment, ttlLeft is the reply of TTL.
throttlerRecord(key, rule, storeUp, ttlLeft) ==
  IF storeUp
    THEN [totalHits |-> increment(redis, key, rule.ttl)[key].hits,
          timeToExpire |-> timeToExpire(redis, key, rule.ttl, ttlLeft)]
    ELSE storeFailure(rule.ttl)

\* The result of a check by what decided it: a verdict taken without the
\* store is "failopen" when it admits the event and "failclosed" when it
\* refuses it.
verdictOf(record, rule, storeUp) ==
  IF allowed(record.totalHits, rule.limit)
    THEN IF storeUp THEN "allowed" ELSE "failopen"
    ELSE IF storeUp THEN "denied" ELSE "failclosed"

\* The body of WebSocketRateLimitGuard.canActivate for an event of type e
\* from client s.  When the store does not answer, nothing is counted and
\* checkRateLimit compares the record of storeFailure with the limit.  A
\* refusal emits 'error' with the retryAfter hint and throws the WsException.
rateLimitCheck(s, e, storeUp, ttlLeft) ==
  LET key == generateClientKey(origin[s], clientUserId(handshake[s]), e)
      rule == WebSocketRule
      record == throttlerRecord(key, rule, storeUp, ttlLeft)
      verdict == verdictOf(record, rule, storeUp)
  IN IF shouldBypassRateLimit(origin[s])
       THEN /\ verdicts' = [verdicts EXCEPT ![s] = Append(@, "bypass")]
            /\ UNCHANGED <<redis, rlStats, window, emitted, ownChecks, retryHints>>
       ELSE /\ verdicts' = [verdicts EXCEPT ![s] = Append(@, verdict)]
            /\ ownChecks' = [ownChecks EXCEPT ![<<s, e>>] = Append(@, verdict)]
            /\ window' = [window EXCEPT ![key] = Append(@, verdict)]
            /\ redis' = IF storeUp THEN increment(redis, key, rule.ttl) ELSE redis
            /\ IF allowed(record.totalHits, rule.limit)
                 THEN /\ rlStats' = [rlStats EXCEPT !.totalRequests = @ + 1]
                      /\ UNCHANGED <<emitted, retryHints>>
                 ELSE /\ rlStats' = [rlStats EXCEPT !.totalRequests = @ + 1,
                                                    !.blockedRequests = @ + 1]
                      /\ emitted' = [emitted EXCEPT ![s] = Append(@, "error")]
                      /\ retryHints' = [retryHints EXCEPT ![s] =
                                          Append(@, retryAfter(record))]

\* Mutation: the handler runs whatever the guard decided.
admits_always(s, e, storeUp, ttlLeft) == TRUE

\* Whether the guard lets the event of type e from client s through.
admits(s, e, storeUp, ttlLeft) ==
  \/ shouldBypassRateLimit(origin[s])
  \/ LET key == generateClientKey(origin[s], clientUserId(handshake[s]), e)
     IN allowed(throttlerRecord(key, WebSocketRule, storeUp, ttlLeft).totalHits,
                WebSocketRule.limit)

\* Number of joinRoom events the clients send through the guard: enough for
\* one client to go past the limit.
MaxJoinEvents == ThrottleLimit + 1

\* The joinRoom event of client s for room r as the server processes it: the
\* class-level WsJwtAuthGuard, then WebSocketRateLimitGuard.canActivate, and,
\* unless the guard threw, handleJoinRoom.
joinRoomEvent(s, r, storeUp, ttlLeft) ==
  /\ open[s]
  /\ wsJwtAuthGuard(handshake[s])
  /\ SumLen(verdicts, Sockets) < MaxJoinEvents
  /\ rateLimitCheck(s, "handleJoinRoom", storeUp, ttlLeft)
  /\ IF admits(s, "handleJoinRoom", storeUp, ttlLeft)
       THEN joinRoomBody(s, r)
       ELSE UNCHANGED <<adapterRooms, connections, stats, roomOps>>
  /\ UNCHANGED <<open, authPc, handshake, authResult, heartbeatIntervals,
                 disconnectTimers, disconnectNotices, purgeTimers, purged, origin, evals>>
  /\ UNCHANGED notAdmission

\* WebSocketRateLimitGuard.canActivate for an event of type e from client s,
\* the handler behind the guard left out.
canActivate(s, e, storeUp, ttlLeft) ==
  /\ open[s]
  /\ wsJwtAuthGuard(handshake[s])
  /\ SumLen(verdicts, Sockets) < MaxChecks
  /\ rateLimitCheck(s, e, storeUp, ttlLeft)
  /\ UNCHANGED <<open, authPc, handshake, authResult, connections, adapterRooms,
                 stats, heartbeatIntervals, disconnectTimers, disconnectNotices, purgeTimers, roomOps, purged, origin, evals>>
  /\ UNCHANGED notAdmission

\* One check followed across its await: the record the store returned, and
\* whether checkRateLimit has resumed with it.
Eval(s, e, key, record) ==
  [socket |-> s, event |-> e, key |-> key, totalHits |-> record.totalHits,
   timeToExpire |-> record.timeToExpire, pc |-> "awaiting", verdict |-> "none"]

\* WebSocketRateLimitGuard.canActivate up to the await of
\* redisStorage.increment: a trusted client passes at once; for any other
\* client checkRateLimit counts the request and the store runs the Lua
\* script, whose reply is on its way.
canActivateStart(s, e, ttlLeft) ==
  /\ open[s]
  /\ wsJwtAuthGuard(handshake[s])
  /\ SumLen(verdicts, Sockets) + Len(SelectSeq(evals, LAMBDA c : c.pc = "awaiting")) < MaxJoinEvents
  /\ LET key == generateClientKey(origin[s], clientUserId(handshake[s]), e)
         rule == WebSocketRule
     IN IF shouldBypassRateLimit(origin[s])
          THEN /\ verdicts' = [verdicts EXCEPT ![s] = Append(@, "bypass")]
               /\ UNCHANGED <<redis, rlStats, evals>>
          ELSE /\ redis' = increment(redis, key, rule.ttl)
               /\ rlStats' = [rlStats EXCEPT !.totalRequests = @ + 1]
               /\ evals' = Append(evals,
                              Eval(s, e, key, throttlerRecord(key, rule, TRUE, ttlLeft)))
               /\ UNCHANGED verdicts
  /\ UNCHANGED <<regVars, origin, window, ownChecks, retryHints>>
  /\ UNCHANGED notAdmission

\* The reply of the store reaches checkRateLimit, which compares it with the
\* limit, and canActivate ends: it returns true, or emits 'error' and throws.
\* Replies are taken up in any order.
canActivateResume(i) ==
  /\ i \in DOMAIN evals
  /\ evals[i].pc = "awaiting"
  /\ LET c == evals[i]
         verdict == verdictOf(c, WebSocketRule, TRUE)
     IN /\ evals' = [evals EXCEPT ![i].pc = "returned", ![i].verdict = verdict]
        /\ verdicts' = [verdicts EXCEPT ![c.socket] = Append(@, verdict)]
        /\ ownChecks' = [ownChecks EXCEPT ![<<c.socket, c.event>>] = Append(@, verdict)]
        /\ window' = [window EXCEPT ![c.key] = Append(@, verdict)]
        /\ IF allowed(c.totalHits, WebSocketRule.limit)
             THEN UNCHANGED <<rlStats, emitted, retryHints>>
             ELSE /\ rlStats' = [rlStats EXCEPT !.blockedRequests = @ + 1]
                  /\ emitted' = [emitted EXCEPT ![c.socket] = Append(@, "error")]
                  /\ retryHints' = [retryHints EXCEPT ![c.socket] =
                                      Append(@, retryAfter(c))]
  /\ UNCHANGED <<open, authPc, handshake, authResult, connections, adapterRooms,
                 stats, heartbeatIntervals, disconnectTimers, disconnectNotices,
                 purgeTimers, roomOps, purged, origin, redis>>
  /\ UNCHANGED notAdmission

\* The time-to-live of a throttle key runs out and the store drops the key:
\* the window of that bucket ends.
ExpireKey(key) ==
  /\ key \in DOMAIN redis
  /\ redis' = MapDelete(redis, key)
  /\ window' = [window EXCEPT ![key] = <<>>]
  /\ ownChecks' = [c \in Sockets \X EventTypes |->
                     IF generateClientKey(origin[c[1]], clientUserId(handshake[c[1]]), c[2]) = key
                       THEN <<>> ELSE ownChecks[c]]
  /\ UNCHANGED <<regVars, origin, rlStats, verdicts, retryHints, evals>>
  /\ UNCHANGED notAdmission

(***************************************************************************)
(* AI orchestrator                                                         *)
(* ai-orchestration.service.ts, openai.provider.ts, chat.gateway.ts        *)
(***************************************************************************)

\* Largest number of tokens one provider stream yields in the model.
MaxTokens == 2

\* Number of entries of fallbackOrder (primary, secondary, tertiary).
FallbackLen == 3

\* Keys of AIOrchestrationService.providers.
Registered == {"openai", "anthropic", "huggingface", "mistral", "gemini"}

\* AIProvider.models of each registered provider.
ProviderModels(p) ==
  CASE p = "openai"      -> <<"gpt-4o", "gpt-4-turbo", "gpt-3.5-turbo">>
    [] p = "anthropic"   -> <<"claude-3-opus", "claude-3-sonnet", "claude-3-haiku">>
    [] p = "huggingface" -> <<"meta-llama/Llama-2-70b-chat-hf", "mistralai/Mixtral-8x7B-Instruct-v0.1">>
    [] p = "mistral"     -> <<"mistral-medium", "mistral-large", "mistral-small", "codestral">>
    [] p = "gemini"      -> <<"gemini-2.5-flash-preview-05-20", "gemini-2.0-flash", "gemini-2.0-flash-lite", "gemini-1.5-flash", "gemini-1.5-pro">>
    [] OTHER             -> <<>>

\* Provider ids the environment variables AI_*_PROVIDER are drawn from;
\* "unknown" is an id that is not a key of the providers map.
ChainIds == {"openai", "anthropic", "huggingface", "unknown"}

\* Providers whose upstream behaviour the model varies.
StreamProviders == {"openai", "anthropic", "huggingface", "gemini"}

\* message.model strings of sendAiMessage, already split at ':'.
ModelStrings == {<<"openai", "gpt-4o">>, <<"anthropic", "claude-3-opus">>,
                 <<"unknown", "x">>, <<"gpt-4o">>}

NoRoom == "undefined"

NoProvider == "none"
\* Error objects: the failure of provider p's upstream stream, an exception
\* thrown by the caller's onComplete while provider p completes, and the
\* orchestrator's own errors.
StreamError(p) == [type |-> "stream_failed", provider |-> p]
CallbackError(p) == [type |-> "callback_threw", provider |-> p]
ProviderNotFound(p) == [type |-> "provider_not_found", provider |-> p]
AllProvidersFailed == [type |-> "all_providers_failed", provider |-> NoProvider]
NoError == [type |-> "none", provider |-> NoProvider]

\* Settlement of the request's promise.
Pending == [status |-> "pending", value |-> <<>>, error |-> NoError]
Resolved(v) == [status |-> "resolved", value |-> v, error |-> NoError]
Rejected(e) == [status |-> "rejected", value |-> <<>>, error |-> e]

\* One invocation of a callback of AIStreamCallbacks.
OnToken(t) == [cb |-> "onToken", text |-> <<t>>, err |-> NoError]
OnComplete(full) == [cb |-> "onComplete", text |-> full, err |-> NoError]
OnError(e) == [cb |-> "onError", text |-> <<>>, err |-> e]

\* message.model.includes(':') ? message.model.split(':') : ['gemini', 'gemini-pro']
parseModel(m) == IF Len(m) > 1 THEN <<m[1], m[2]>> ELSE <<"gemini", "gemini-pro">>

\* i === this.fallbackOrder.length - 1 (i is aiIdx - 1)
isLastProvider(i) == i = Len(fallbackOrder)

\* Mutation: every provider's error is passed on to the caller's onError.
enhancedOnError_always(log, i, e) == Append(log, OnError(e))

\* enhancedCallbacks.onError: the caller's onError is called for the last
\* provider of the chain only; the stream promise is rejected in any case.
enhancedOnError(log, i, e) ==
  IF isLastProvider(i) THEN Append(log, OnError(e)) ELSE log

\* catch block around `await streamPromise`.
fallbackCatch(log, i, e) ==
  IF isLastProvider(i) THEN Append(log, OnError(e)) ELSE log

\* No AI request yet.
IdleAI ==
  /\ aiMode = "none"
  /\ aiIn = [cbThrows |-> FALSE, model |-> <<>>, roomId |-> NoRoom]
  /\ aiPc = "idle"
  /\ aiIdx = 0
  /\ aiActive = NoProvider
  /\ aiFull = <<>>
  /\ cbLog = <<>>
  /\ aiResult = Pending
  /\ aiEmitted = <<>>
  /\ aiBroadcast = <<>>
  /\ aiAttempts = <<>>

\* The chain AI_PRIMARY_PROVIDER, AI_SECONDARY_PROVIDER, AI_TERTIARY_PROVIDER
\* default to.
DefaultFallbackOrder == <<"openai", "anthropic", "huggingface">>

InitAI ==
  /\ fallbackOrder \in [1..FallbackLen -> ChainIds]
  /\ behave \in [StreamProviders -> {"ok", "err"}]
  /\ IdleAI

\* streamCompletionWithFallback is called; cbThrows tells whether the
\* caller's onComplete throws.
FallbackStart ==
  /\ aiMode = "none"
  /\ \E t \in BOOLEAN :
       aiIn' = [cbThrows |-> t, model |-> <<>>, roomId |-> NoRoom]
  /\ aiMode' = "fallback"
  /\ aiPc' = "loop"
  /\ aiIdx' = 1
  /\ UNCHANGED notAI
  /\ UNCHANGED <<fallbackOrder, behave, aiActive, aiFull, cbLog, aiResult,
                 aiEmitted, aiBroadcast, aiAttempts>>

\* Loop head: the candidate is not registered or has no model: continue.
FallbackSkip ==
  /\ aiMode = "fallback" /\ aiPc = "loop"
  /\ aiIdx <= Len(fallbackOrder)
  /\ LET p == fallbackOrder[aiIdx] IN
       p \notin Registered \/ Len(ProviderModels(p)) = 0
  /\ aiIdx' = aiIdx + 1
  /\ UNCHANGED notAI
  /\ UNCHANGED <<fallbackOrder, behave, aiMode, aiIn, aiPc, aiActive, aiFull,
                 cbLog, aiResult, aiEmitted, aiBroadcast, aiAttempts>>

\* Loop head: the candidate's generateCompletionStream is started.
FallbackAttempt ==
  /\ aiMode = "fallback" /\ aiPc = "loop"
  /\ aiIdx <= Len(fallbackOrder)
  /\ LET p == fallbackOrder[aiIdx] IN
       /\ p \in Registered /\ Len(ProviderModels(p)) > 0
       /\ aiActive' = p
       /\ aiAttempts' = Append(aiAttempts, p)
  /\ aiPc' = "streaming"
  /\ aiFull' = <<>>
  /\ UNCHANGED notAI
  /\ UNCHANGED <<fallbackOrder, behave, aiMode, aiIn, aiIdx, cbLog, aiResult,
                 aiEmitted, aiBroadcast>>

\* The loop ran off the end of the chain.
FallbackExhausted ==
  /\ aiMode = "fallback" /\ aiPc = "loop"
  /\ aiIdx > Len(fallbackOrder)
  /\ aiResult' = Rejected(AllProvidersFailed)
  /\ aiPc' = "done"
  /\ UNCHANGED notAI
  /\ UNCHANGED <<fallbackOrder, behave, aiMode, aiIn, aiIdx, aiActive, aiFull,
                 cbLog, aiEmitted, aiBroadcast, aiAttempts>>

\* Events of the gateway's AI path.
AiToken(t) == [event |-> "aiToken", text |-> <<t>>, isAIMessage |-> FALSE, err |-> NoError]
AiComplete(full) == [event |-> "aiComplete", text |-> full, isAIMessage |-> FALSE, err |-> NoError]
AiError(e) == [event |-> "aiError", text |-> <<>>, isAIMessage |-> FALSE, err |-> e]
NewMessage(content, isAi) ==
  [event |-> "newMessage", text |-> content, isAIMessage |-> isAi, err |-> NoError]

\* The text of the user's message, as a token sequence.
UserText == <<<<"user", 1>>>>

\* handleAiMessage up to its await: parse the model string, broadcast the
\* user's message to the room, call streamCompletion, which throws when the
\* provider id is not a key of the providers map (caught by the handler and
\* rethrown as a WsException) and otherwise starts the provider's stream.
handleAiMessage ==
  /\ aiMode = "none"
  /\ \E m \in ModelStrings, r \in RoomIds \cup {NoRoom} :
       LET providerId == parseModel(m)[1]
           roomId == IF r = NoRoom THEN "general" ELSE r IN
         /\ aiIn' = [cbThrows |-> FALSE, model |-> m, roomId |-> roomId]
         /\ aiBroadcast' = Append(aiBroadcast, NewMessage(UserText, FALSE))
         /\ IF providerId \in Registered
              THEN /\ aiPc' = "streaming"
                   /\ aiActive' = providerId
                   /\ aiAttempts' = Append(aiAttempts, providerId)
                   /\ aiResult' = aiResult
              ELSE /\ aiPc' = "done"
                   /\ aiActive' = aiActive
                   /\ aiAttempts' = aiAttempts
                   /\ aiResult' = Rejected(ProviderNotFound(providerId))
  /\ aiMode' = "gateway"
  /\ aiFull' = <<>>
  /\ UNCHANGED notAI
  /\ UNCHANGED <<fallbackOrder, behave, aiIdx, cbLog, aiEmitted>>

\* Mutation: the tokens are not passed on to the caller.
callerOnToken_drop(t) ==
  /\ cbLog' = cbLog
  /\ aiEmitted' = aiEmitted

\* The caller's onToken: the gateway's closure emits aiToken to the sender;
\* in the fallback path the caller's onToken is passed through unchanged.
callerOnToken(t) ==
  /\ cbLog' = Append(cbLog, OnToken(t))
  /\ aiEmitted' = IF aiMode = "gateway" THEN Append(aiEmitted, AiToken(t)) ELSE aiEmitted

\* generateCompletionStream: one chunk of the upstream stream arrives.
ProviderToken ==
  /\ aiPc = "streaming"
  /\ Len(aiFull) < MaxTokens
  /\ LET t == <<aiActive, Len(aiFull) + 1>> IN
       /\ aiFull' = Append(aiFull, t)
       /\ callerOnToken(t)
  /\ UNCHANGED notAI
  /\ UNCHANGED <<fallbackOrder, behave, aiMode, aiIn, aiPc, aiIdx, aiActive,
                 aiResult, aiBroadcast, aiAttempts>>

\* Mutation: the loop goes on with the next candidate after a stream that
\* ended normally.
FallbackProviderComplete_continue ==
  /\ aiMode = "fallback" /\ aiPc = "streaming"
  /\ behave[aiActive] = "ok"
  /\ cbLog' = Append(cbLog, OnComplete(aiFull))
  /\ aiPc' = "loop"
  /\ aiIdx' = aiIdx + 1
  /\ aiResult' = aiResult
  /\ UNCHANGED notAI
  /\ UNCHANGED <<fallbackOrder, behave, aiMode, aiIn, aiActive, aiFull,
                 aiEmitted, aiBroadcast, aiAttempts>>

\* generateCompletionStream under streamCompletionWithFallback: the upstream
\* stream ends normally.  enhancedCallbacks.onComplete calls the caller's
\* onComplete and resolves; when the caller's onComplete throws, the
\* provider's catch calls enhancedCallbacks.onError, the stream promise is
\* rejected and the loop's catch runs.
FallbackProviderComplete ==
  /\ aiMode = "fallback" /\ aiPc = "streaming"
  /\ behave[aiActive] = "ok"
  /\ LET log1 == Append(cbLog, OnComplete(aiFull))
         e == CallbackError(aiActive) IN
       IF aiIn.cbThrows
         THEN /\ cbLog' = fallbackCatch(enhancedOnError(log1, aiIdx, e), aiIdx, e)
              /\ aiPc' = "loop"
              /\ aiIdx' = aiIdx + 1
              /\ aiResult' = aiResult
         ELSE /\ cbLog' = log1
              /\ aiPc' = "done"
              /\ aiIdx' = aiIdx
              /\ aiResult' = Resolved(aiFull)
  /\ UNCHANGED notAI
  /\ UNCHANGED <<fallbackOrder, behave, aiMode, aiIn, aiActive, aiFull,
                 aiEmitted, aiBroadcast, aiAttempts>>

\* generateCompletionStream under streamCompletionWithFallback: the upstream
\* call or stream throws.  The provider's catch calls
\* enhancedCallbacks.onError, which rejects the stream promise; the loop's
\* catch then runs and the loop goes on with the next candidate.
FallbackProviderError ==
  /\ aiMode = "fallback" /\ aiPc = "streaming"
  /\ behave[aiActive] = "err"
  /\ LET e == StreamError(aiActive) IN
       cbLog' = fallbackCatch(enhancedOnError(cbLog, aiIdx, e), aiIdx, e)
  /\ aiPc' = "loop"
  /\ aiIdx' = aiIdx + 1
  /\ UNCHANGED notAI
  /\ UNCHANGED <<fallbackOrder, behave, aiMode, aiIn, aiActive, aiFull,
                 aiResult, aiEmitted, aiBroadcast, aiAttempts>>

\* The client whose sendAiMessage is followed through a disconnect.
AiSender == "s1"

\* Mutation: the stream of a sender that has disconnected is dropped without
\* a callback.
GatewayProviderComplete_cancelled ==
  /\ aiMode = "gateway" /\ aiPc = "streaming"
  /\ behave[aiActive] = "ok"
  /\ IF open[AiSender]
       THEN /\ cbLog' = Append(cbLog, OnComplete(aiFull))
            /\ aiBroadcast' = Append(aiBroadcast, NewMessage(aiFull, TRUE))
            /\ aiEmitted' = Append(aiEmitted, AiComplete(aiFull))
            /\ aiResult' = Resolved(aiFull)
       ELSE UNCHANGED <<cbLog, aiBroadcast, aiEmitted, aiResult>>
  /\ aiPc' = "done"
  /\ UNCHANGED notAI
  /\ UNCHANGED <<fallbackOrder, behave, aiMode, aiIn, aiIdx, aiActive, aiFull,
                 aiAttempts>>

\* generateCompletionStream under handleAiMessage: the stream ends normally.
\* The gateway's onComplete broadcasts the AI message to the room and emits
\* aiComplete to the sender; the handler returns {success: true}.
GatewayProviderComplete ==
  /\ aiMode = "gateway" /\ aiPc = "streaming"
  /\ behave[aiActive] = "ok"
  /\ cbLog' = Append(cbLog, OnComplete(aiFull))
  /\ aiBroadcast' = Append(aiBroadcast, NewMessage(aiFull, TRUE))
  /\ aiEmitted' = Append(aiEmitted, AiComplete(aiFull))
  /\ aiResult' = Resolved(aiFull)
  /\ aiPc' = "done"
  /\ UNCHANGED notAI
  /\ UNCHANGED <<fallbackOrder, behave, aiMode, aiIn, aiIdx, aiActive, aiFull,
                 aiAttempts>>

\* The catch block of generateCompletionStream rethrows the error after
\* calling onError in every provider but gemini, which only calls onError.
rethrows(p) == p # "gemini"

\* Mutation: the failure is rethrown without telling the sender.
GatewayProviderError_silent ==
  /\ aiMode = "gateway" /\ aiPc = "streaming"
  /\ behave[aiActive] = "err"
  /\ aiResult' = IF rethrows(aiActive) THEN Rejected(StreamError(aiActive))
                                       ELSE Resolved(<<>>)
  /\ aiPc' = "done"
  /\ UNCHANGED notAI
  /\ UNCHANGED <<fallbackOrder, behave, aiMode, aiIn, aiIdx, aiActive, aiFull,
                 aiBroadcast, aiAttempts, cbLog, aiEmitted>>

\* generateCompletionStream under handleAiMessage: the upstream call or
\* stream throws.  The gateway's onError emits aiError to the sender; when the
\* provider rethrows, the handler's catch turns the error into a WsException,
\* otherwise the handler returns {success: true}.
GatewayProviderError ==
  /\ aiMode = "gateway" /\ aiPc = "streaming"
  /\ behave[aiActive] = "err"
  /\ LET e == StreamError(aiActive) IN
       /\ cbLog' = Append(cbLog, OnError(e))
       /\ aiEmitted' = Append(aiEmitted, AiError(e))
       /\ aiResult' = IF rethrows(aiActive) THEN Rejected(e) ELSE Resolved(<<>>)
  /\ aiPc' = "done"
  /\ UNCHANGED notAI
  /\ UNCHANGED <<fallbackOrder, behave, aiMode, aiIn, aiIdx, aiActive, aiFull,
                 aiBroadcast, aiAttempts>>

\* Provider ids a caller passes to streamCompletion.
DirectProviders == StreamProviders \cup {"unknown"}

\* AIOrchestrationService.streamCompletion called by a caller whose
\* onComplete throws or not (cbThrows): an id that is not a key of the
\* providers map throws without any callback; otherwise the provider's
\* generateCompletionStream is started with the caller's callbacks.
streamCompletion ==
  /\ aiMode = "none"
  /\ \E providerId \in DirectProviders, t \in BOOLEAN :
       /\ aiIn' = [cbThrows |-> t, model |-> <<providerId, "x">>, roomId |-> NoRoom]
       /\ IF providerId \in Registered
            THEN /\ aiPc' = "streaming"
                 /\ aiActive' = providerId
                 /\ aiAttempts' = Append(aiAttempts, providerId)
                 /\ aiResult' = aiResult
            ELSE /\ aiPc' = "done"
                 /\ aiActive' = aiActive
                 /\ aiAttempts' = aiAttempts
                 /\ aiResult' = Rejected(ProviderNotFound(providerId))
  /\ aiMode' = "direct"
  /\ aiFull' = <<>>
  /\ UNCHANGED notAI
  /\ UNCHANGED <<fallbackOrder, behave, aiIdx, cbLog, aiEmitted, aiBroadcast>>

\* generateCompletionStream called through streamCompletion: the stream ends
\* normally and the provider calls callbacks.onComplete inside its try block;
\* when that callback throws, the provider's catch calls callbacks.onError
\* with the thrown error and (gemini excepted) rethrows it.
DirectProviderComplete ==
  /\ aiMode = "direct" /\ aiPc = "streaming"
  /\ behave[aiActive] = "ok"
  /\ LET log1 == Append(cbLog, OnComplete(aiFull))
         e == CallbackError(aiActive) IN
       IF aiIn.cbThrows
         THEN /\ cbLog' = Append(log1, OnError(e))
              /\ aiResult' = IF rethrows(aiActive) THEN Rejected(e) ELSE Resolved(<<>>)
         ELSE /\ cbLog' = log1
              /\ aiResult' = Resolved(aiFull)
  /\ aiPc' = "done"
  /\ UNCHANGED notAI
  /\ UNCHANGED <<fallbackOrder, behave, aiMode, aiIn, aiIdx, aiActive, aiFull,
                 aiEmitted, aiBroadcast, aiAttempts>>

\* generateCompletionStream called through streamCompletion: the upstream
\* call or stream throws and the provider's catch calls callbacks.onError.
DirectProviderError ==
  /\ aiMode = "direct" /\ aiPc = "streaming"
  /\ behave[aiActive] = "err"
  /\ LET e == StreamError(aiActive) IN
       /\ cbLog' = Append(cbLog, OnError(e))
       /\ aiResult' = IF rethrows(aiActive) THEN Rejected(e) ELSE Resolved(<<>>)
  /\ aiPc' = "done"
  /\ UNCHANGED notAI
  /\ UNCHANGED <<fallbackOrder, behave, aiMode, aiIn, aiIdx, aiActive, aiFull,
                 aiEmitted, aiBroadcast, aiAttempts>>

\* The orchestrator as constructed with the default chain, every provider
\* answering, and no request running.
NoAIRequest ==
  /\ fallbackOrder = DefaultFallbackOrder
  /\ behave = [p \in StreamProviders |-> "ok"]
  /\ IdleAI

(***************************************************************************)
(* Specifications                                                          *)
(***************************************************************************)

\* The registry specification: connections, authentication, rooms,
\* disconnection and purge; no AI request runs.
Init ==
  /\ InitRegistry
  /\ NoAIRequest
  /\ IdleHeartbeat
  /\ IdleDelivery
  /\ IdleAdmission

Next ==
  \/ \E s \in Sockets : handleConnection(s)
  \/ \E s \in Sockets : AuthComplete(s)
  \/ \E s \in Sockets, r \in RoomIds : handleJoinRoom(s, r)
  \/ \E s \in Sockets, r \in RoomIds : handleLeaveRoom(s, r)
  \/ \E s \in Sockets : handleDisconnect(s)
  \/ \E s \in Sockets : purgeConnection(s)

Spec == Init /\ [][Next]_vars

\* The connection specification: clients connect and are authenticated, and
\* handleConnection may fail with an exception.
NextConnect ==
  \/ \E s \in Sockets : handleConnection(s)
  \/ \E s \in Sockets : AuthComplete(s)
  \/ \E s \in Sockets : handleConnectionThrows(s)
  \/ \E s \in Sockets : handleDisconnect(s)

SpecConnect == Init /\ [][NextConnect]_vars

\* The closing specification: clients connect, are authenticated and
\* disconnect, and the removal timeouts armed by handleDisconnection fire.
NextClose ==
  \/ \E s \in Sockets : handleConnection(s)
  \/ \E s \in Sockets : AuthComplete(s)
  \/ \E s \in Sockets : handleDisconnect(s)
  \/ \E s \in Sockets : purgeConnection(s)

SpecClose == Init /\ [][NextClose]_vars

\* Every verification settles and every armed removal timeout fires.
FairSpecClose ==
  /\ SpecClose
  /\ \A s \in Sockets : WF_vars(AuthComplete(s)) /\ WF_vars(purgeConnection(s))

\* The AI specification: one request, through handleAiMessage or through
\* streamCompletionWithFallback, for every chain and provider behaviour.
InitAIOnly ==
  /\ InitRegistry
  /\ InitAI
  /\ IdleHeartbeat
  /\ IdleDelivery
  /\ IdleAdmission

NextAI ==
  \/ FallbackStart
  \/ FallbackSkip
  \/ FallbackAttempt
  \/ FallbackExhausted
  \/ handleAiMessage
  \/ ProviderToken
  \/ FallbackProviderComplete
  \/ FallbackProviderError
  \/ GatewayProviderComplete
  \/ GatewayProviderError
  \/ streamCompletion
  \/ DirectProviderComplete
  \/ DirectProviderError

SpecAI == InitAIOnly /\ [][NextAI]_vars

\* Every upstream call of a provider ends (normally or with an error) and the
\* event loop runs the continuations that are ready.
FairSpecAI == SpecAI /\ WF_vars(NextAI)

\* sendAiMessage from client s: the guards let the event of an open,
\* authenticated connection through to handleAiMessage.
sendAiMessage(s) ==
  /\ open[s]
  /\ wsJwtAuthGuard(handshake[s])
  /\ handleAiMessage

\* The AI specification with a sender: s1 is connected and sends one
\* sendAiMessage; its connection may close while the stream is in flight.
InitAISender ==
  /\ Established({AiSender}, {})
  /\ InitAI
  /\ IdleHeartbeat
  /\ IdleDelivery
  /\ IdleAdmission

\* The steps of the provider's stream.
StreamSteps ==
  \/ ProviderToken
  \/ GatewayProviderComplete
  \/ GatewayProviderError

NextAISender ==
  \/ sendAiMessage(AiSender)
  \/ StreamSteps
  \/ (aiPc = "streaming" /\ handleDisconnect(AiSender))

SpecAISender == InitAISender /\ [][NextAISender]_vars

\* Every upstream stream ends, normally or with an error.
FairSpecAISender == SpecAISender /\ WF_vars(StreamSteps)

\* The heartbeat specification: connections are authenticated, probed every
\* heartbeatIntervalMs and cut by the disconnect timeout, on a clock.
NextHeartbeat ==
  \/ \E s \in Sockets : handleConnection(s)
  \/ \E s \in Sockets : AuthComplete(s)
  \/ \E s \in Sockets : HeartbeatInterval(s)
  \/ \E s \in Sockets, truthy \in BOOLEAN : HeartbeatResponse(s, truthy)
  \/ \E s \in Sockets : DisconnectTimeout(s)
  \/ \E s \in Sockets : handleDisconnect(s)
  \/ Tick

SpecHeartbeat == Init /\ [][NextHeartbeat]_vars

\* The delivery specification: the clients are connected, any of them may
\* have joined room "general", and messages are sent, acknowledged or not,
\* and retried.
InitDelivery ==
  /\ \E joined \in SUBSET Sockets, verifying \in SUBSET {"s3"} :
       Established(joined, verifying)
  /\ NoAIRequest
  /\ IdleHeartbeat
  /\ IdleDelivery
  /\ IdleAdmission

NextDelivery ==
  \/ \E m \in MessageIds, c \in Sockets, r \in RoomIds, content \in Contents :
       handleMessage(m, c, r, content)
  \/ \E m \in MessageIds, s \in Sockets, received \in BOOLEAN : AckReceived(m, s, received)
  \/ \E m \in MessageIds, s \in Sockets : AckTimeout(m, s)
  \/ \E m \in MessageIds, s \in Sockets : BackoffElapsed(m, s)
  \/ \E m \in MessageIds : handleMessageReturn(m)
  \/ \E s \in Leavers : handleDisconnect(s)

SpecDelivery == InitDelivery /\ [][NextDelivery]_vars

\* Two sendMessage events of s1 to room "general", whose only member is s2:
\* the second handler starts while the first one may still be awaiting its
\* deliveries.
InitOverlap ==
  /\ Established({"s2"}, {})
  /\ NoAIRequest
  /\ IdleHeartbeat
  /\ IdleDelivery
  /\ IdleAdmission

NextOverlap ==
  \/ \E m \in OverlapMessageIds, content \in Contents :
       handleMessage(m, "s1", "general", content)
  \/ \E m \in OverlapMessageIds, s \in Sockets, received \in BOOLEAN :
       AckReceived(m, s, received)
  \/ \E m \in OverlapMessageIds, s \in Sockets : AckTimeout(m, s)
  \/ \E m \in OverlapMessageIds, s \in Sockets : BackoffElapsed(m, s)
  \/ \E m \in OverlapMessageIds : handleMessageReturn(m)

SpecOverlap == InitOverlap /\ [][NextOverlap]_vars

\* Reconnection during a delivery: s1 and s2 are connected and s2 is the only
\* member of room "general" (it may be in room "r1" as well); s1 sends one message; the client of s2 may close
\* its connection and connect again, which gives it socket s3, and join the
\* room again.
ReconnectSockets == {"s1", "s2"}

InitRecovery ==
  /\ open = [s \in Sockets |-> s \in ReconnectSockets]
  /\ handshake = [s \in Sockets |-> IF s \in ReconnectSockets
                                      THEN DeliveryHandshake(s)
                                      ELSE Handshake(NoToken, <<>>, <<>>)]
  /\ authPc = [s \in Sockets |-> IF s \in ReconnectSockets THEN "done" ELSE "idle"]
  /\ authResult = [s \in Sockets |-> s \in ReconnectSockets]
  /\ \E joined \in {{"general"}, RoomIds} :
       /\ connections = [s \in ReconnectSockets |->
            [NewSession(verifyAsync(extractToken(DeliveryHandshake(s))))
               EXCEPT !.rooms = IF s = "s2" THEN joined ELSE {}]]
       /\ adapterRooms = [s \in Sockets |-> IF s = "s2" THEN joined ELSE {}]
       /\ stats = [connectedUsers |-> 2, totalMessages |-> 0,
                   totalRooms |-> Cardinality(joined),
                   deliverySuccess |-> 0, deliveryFailures |-> 0]
       /\ roomOps = [s \in Sockets |->
            IF s = "s2"
              THEN [i \in 1..Cardinality(joined) |-> <<"join", SeqOfSet(joined)[i]>>]
              ELSE <<>>]
  /\ emitted = [s \in Sockets |-> IF s \in ReconnectSockets THEN <<"connected">> ELSE <<>>]
  /\ heartbeatIntervals = [s \in ReconnectSockets |-> heartbeatIntervalMs]
  /\ disconnectTimers = [s \in ReconnectSockets |-> disconnectTimeoutMs]
  /\ purged = {}
  /\ disconnectNotices = [s \in Sockets |-> <<>>]
  /\ purgeTimers = << >>
  /\ NoAIRequest
  /\ IdleHeartbeat
  /\ IdleDelivery
  /\ IdleAdmission

NextRecovery ==
  \/ \E content \in Contents : handleMessage("m1", "s1", "general", content)
  \/ \E s \in Sockets, received \in BOOLEAN : AckReceived("m1", s, received)
  \/ \E s \in Sockets : AckTimeout("m1", s)
  \/ \E s \in Sockets : BackoffElapsed("m1", s)
  \/ handleMessageReturn("m1")
  \/ handleDisconnect("s2")
  \/ handleReconnection("s2", "s3")
  \/ AuthComplete("s3")
  \/ handleJoinRoom("s3", "general")

SpecRecovery == InitRecovery /\ [][NextRecovery]_vars

\* Every timer fires, every handler that was started runs on, and the client
\* goes on with what it can do.
FairSpecRecovery == SpecRecovery /\ WF_vars(NextRecovery)

\* The cleanup specification: s1 and s2 are connected and probed; each is
\* closed by its client or by the heartbeat monitor, and the removal timeouts
\* and the periodic cleanup run on the server's clock.
NextPurge ==
  \/ \E s \in ReconnectSockets : handleDisconnect(s)
  \/ \E s \in Sockets : HeartbeatInterval(s)
  \/ \E s \in Sockets, truthy \in BOOLEAN : HeartbeatResponse(s, truthy)
  \/ \E s \in Sockets : DisconnectTimeout(s)
  \/ \E s \in Sockets : RemovalTimeout(s)
  \/ PeriodicCleanup
  \/ TickAll

SpecPurge == InitRecovery /\ [][NextPurge]_vars

\* The event loop runs every timer that is due and time passes.
FairSpecPurge == SpecPurge /\ WF_vars(NextPurge)

\* The admission specification: s1 and s2 reach the server from one address
\* (s2 through a proxy), s3 is a trusted client of any kind, and every event
\* of theirs passes through the guard.
InitAdmission ==
  /\ Established({}, {})
  /\ NoAIRequest
  /\ IdleHeartbeat
  /\ IdleDelivery
  /\ \E o \in TrustedOrigins :
       origin = [s \in Sockets |-> CASE s = "s1" -> PlainOrigin
                                     [] s = "s2" -> ProxiedOrigin
                                     [] OTHER    -> o]
  /\ redis = << >>
  /\ rlStats = [totalRequests |-> 0, blockedRequests |-> 0]
  /\ window = [k \in ThrottleKeys |-> <<>>]
  /\ verdicts = [s \in Sockets |-> <<>>]
  /\ ownChecks = [c \in Sockets \X EventTypes |-> <<>>]
  /\ retryHints = [s \in Sockets |-> <<>>]
  /\ evals = <<>>

NextAdmission ==
  \/ \E s \in Sockets, e \in EventTypes, storeUp \in BOOLEAN, ttlLeft \in TtlReplies :
       canActivate(s, e, storeUp, ttlLeft)
  \/ \E key \in ThrottleKeys : ExpireKey(key)

SpecAdmission == InitAdmission /\ [][NextAdmission]_vars

\* The guarded handler: the clients of the admission specification send
\* joinRoom events, each through the guard and, when admitted, the handler;
\* windows end and clients disconnect in between.
NextGuarded ==
  \/ \E s \in Sockets, r \in RoomIds, storeUp \in BOOLEAN, ttlLeft \in TtlReplies :
       joinRoomEvent(s, r, storeUp, ttlLeft)
  \/ \E key \in ThrottleKeys : ExpireKey(key)
  \/ \E s \in Sockets : handleDisconnect(s)

SpecGuarded == InitAdmission /\ [][NextGuarded]_vars

\* Concurrent checks within one window: the guards of several events are
\* awaiting the store at the same time, and no key expires.
NextConcurrent ==
  \/ \E s \in Sockets, e \in EventTypes, ttlLeft \in TtlReplies :
       canActivateStart(s, e, ttlLeft)
  \/ \E i \in 1..MaxJoinEvents : canActivateResume(i)

SpecConcurrent == InitAdmission /\ [][NextConcurrent]_vars

(***************************************************************************)
(* Properties                                                              *)
(***************************************************************************)

\* A token that verifies, is not expired and carries a subject.
TokenValid(t) ==
  /\ t # NoToken
  /\ TokenClaims(t).sigOk
  /\ ~TokenClaims(t).expired
  /\ TokenClaims(t).sub # ""

\* C6: when handleConnection finishes for a connection, a valid token gives
\* the result true and a Session whose userId is the token's sub; a missing,
\* expired, invalid or sub-less token gives the result false and no Session;
\* and a connection whose authentication failed never has a Session.
C6_Authenticate ==
  /\ [](\A s \in Sockets :
          (authPc[s] = "done" /\ ~authResult[s]) => s \notin DOMAIN connections)
  /\ [][\A s \in Sockets :
          (authPc[s] # "done" /\ authPc'[s] = "done") =>
             LET t == extractToken(handshake'[s]) IN
               IF TokenValid(t)
                 THEN /\ authResult'[s]
                      /\ s \in DOMAIN connections'
                      /\ connections'[s].userId = TokenClaims(t).sub
                 ELSE /\ ~authResult'[s]
                      /\ s \notin DOMAIN connections']_vars

\* One connection authenticated as u1 and another refused for an expired token.
C6_Witness ==
  \E s, x \in Sockets :
    /\ authPc[s] = "done" /\ authResult[s]
    /\ s \in DOMAIN connections /\ connections[s].userId = "u1"
    /\ authPc[x] = "done" /\ ~authResult[x]
    /\ extractToken(handshake[x]) = "tok_expired"

RECURSIVE ApplyRoomOps(_)
\* The idempotent set-application of a sequence of join/leave operations.
ApplyRoomOps(ops) ==
  IF ops = <<>> THEN {}
  ELSE LET before == ApplyRoomOps(SubSeq(ops, 1, Len(ops) - 1))
           op == ops[Len(ops)]
       IN IF op[1] = "join"
            THEN (IF op[2] \in before THEN before ELSE before \cup {op[2]})
            ELSE (IF op[2] \in before THEN before \ {op[2]} ELSE before)

\* C7: the rooms of a session equal the idempotent set-application of the
\* joinRoom/leaveRoom calls made on it.
C7_RoomsIdempotent ==
  \A s \in DOMAIN connections : connections[s].rooms = ApplyRoomOps(roomOps[s])

\* A session that was joined twice to the same room and left a room it was
\* not in.
C7_Witness ==
  \E s \in DOMAIN connections :
    /\ roomOps[s] = <<<<"join", "general">>, <<"join", "general">>, <<"leave", "r1">>>>
    /\ connections[s].rooms = {"general"}

\* The caller's callback invocations of one kind, in order.
CallsOf(name) == SelectSeq(cbLog, LAMBDA c : c.cb = name)

\* The entries of fallbackOrder that are attempted: registered, with a model.
UsableChain ==
  SelectSeq(fallbackOrder, LAMBDA p : p \in Registered /\ Len(ProviderModels(p)) > 0)

\* C3 (as stated): when the two providers that are attempted both end in
\* error, the caller's onError is called exactly once, with the error of the
\* second one.
C3_OnErrorOnce ==
  ( /\ aiMode = "fallback" /\ aiPc = "done"
    /\ Len(aiAttempts) = 2
    /\ behave[aiAttempts[1]] = "err" /\ behave[aiAttempts[2]] = "err" )
  => CallsOf("onError") = <<OnError(StreamError(aiAttempts[2]))>>

\* The fallback call runs on a chain whose first usable provider always
\* errors and whose second always succeeds, with a caller's onComplete that
\* returns normally.
C4_Pre ==
  /\ aiMode = "fallback"
  /\ ~aiIn.cbThrows
  /\ Len(UsableChain) >= 2
  /\ behave[UsableChain[1]] = "err"
  /\ behave[UsableChain[2]] = "ok"

C4_Completed ==
  /\ aiPc = "done"
  /\ Len(UsableChain) >= 2
  /\ aiAttempts = <<UsableChain[1], UsableChain[2]>>
  /\ aiResult = Resolved(aiFull)
  /\ \A i \in DOMAIN aiFull : aiFull[i][1] = UsableChain[2]
  /\ CallsOf("onComplete") = <<OnComplete(aiFull)>>

\* C4: with a chain whose first provider always errors and whose second
\* always succeeds, streamCompletionWithFallback never calls the caller's
\* onError, and it eventually calls onComplete with the second provider's
\* output and returns that output.
C4_Fallback ==
  /\ [](C4_Pre => ( /\ CallsOf("onError") = <<>>
                    /\ (aiPc = "done" => C4_Completed) ))
  /\ (C4_Pre ~> C4_Completed)

\* The second provider answered after the first one had streamed a token and
\* failed.
C4_Witness ==
  /\ C4_Pre /\ C4_Completed
  /\ Len(aiFull) > 0
  /\ \E i \in DOMAIN cbLog : cbLog[i] = OnToken(<<UsableChain[1], 1>>)

\* The sendAiMessage request names a registered provider whose stream ends in
\* error.
C10_Pre ==
  /\ aiMode = "gateway"
  /\ parseModel(aiIn.model)[1] \in Registered
  /\ behave[parseModel(aiIn.model)[1]] = "err"

\* C10: for a sendAiMessage whose provider's stream ends in error, no
\* newMessage with isAIMessage true is ever broadcast, and when the request
\* has ended aiError has been emitted to the sender.
C10_AiError ==
  C10_Pre =>
    /\ \A i \in DOMAIN aiBroadcast :
         ~(aiBroadcast[i].event = "newMessage" /\ aiBroadcast[i].isAIMessage)
    /\ aiPc = "done" => \E i \in DOMAIN aiEmitted : aiEmitted[i].event = "aiError"

\* The openai stream failed after a token had reached the sender.
C10_Witness ==
  /\ C10_Pre /\ aiPc = "done"
  /\ parseModel(aiIn.model)[1] = "openai"
  /\ aiEmitted = <<AiToken(<<"openai", 1>>), AiError(StreamError("openai"))>>
  /\ aiBroadcast = <<NewMessage(UserText, FALSE)>>

\* The attempts of a call all ended in the timeout: the recipient never
\* invoked the acknowledgment callback.
NeverAcknowledged(c) == \A i \in DOMAIN c.outcomes : c.outcomes[i] = "timeout"

\* The delays between consecutive emits grow strictly.
StrictlyIncreasingDelays(sentAt) ==
  \A i \in 2..(Len(sentAt) - 1) :
    sentAt[i + 1] - sentAt[i] > sentAt[i] - sentAt[i - 1]

\* C1: a sendMessageWithRetry call to a recipient connection that never
\* acknowledges emits the event at most maxRetries times with strictly
\* increasing delays between the emits, and when it returns it has emitted
\* exactly maxRetries times and returns false.
C1_RetrySchedule ==
  \A k \in DOMAIN calls :
    (calls[k].queued /\ NeverAcknowledged(calls[k])) =>
      /\ Len(calls[k].sentAt) <= maxRetries
      /\ StrictlyIncreasingDelays(calls[k].sentAt)
      /\ calls[k].pc = "returned" =>
           /\ Len(calls[k].sentAt) = maxRetries
           /\ calls[k].result = FALSE

\* A call ran out of attempts against a silent recipient: emits at 0, 6000
\* and 13000 ms.
C1_Witness ==
  \E k \in DOMAIN calls :
    /\ calls[k].pc = "returned"
    /\ calls[k].outcomes = <<"timeout", "timeout", "timeout">>
    /\ calls[k].sentAt = <<0, timeoutMs + backoffMs, 2 * timeoutMs + 3 * backoffMs>>
    /\ calls[k].result = FALSE

\* C2 (as stated): once a sendMessageWithRetry call has returned, its
\* PendingMessage is no longer in the recipient's pending queue.
C2_DequeuedOnReturn ==
  \A k \in DOMAIN calls :
    (calls[k].pc = "returned" /\ k[2] \in DOMAIN connections) =>
      \A i \in DOMAIN connections[k[2]].messageQueue :
        connections[k[2]].messageQueue[i].id # k[1]

\* C9 (as stated): when handleMessage has returned for an authenticated
\* sender and a room that holds two connected members besides the sender,
\* both of which acknowledged the message, both were sent newMessage with the
\* content and the response is
\* {success: true, deliveredCount: 2, totalRecipients: 2}.
C9_TwoOtherMembers ==
  \A m \in DOMAIN handle :
    LET others == {s \in Sockets \ {handle[m].sender} :
                     /\ <<m, s>> \in DOMAIN calls
                     /\ calls[<<m, s>>].outcomes = <<"ack">>}
    IN ( /\ handle[m].response # NoResponse
         /\ handle[m].sender \in DOMAIN connections
         /\ Cardinality(others) = 2 ) =>
         /\ \A s \in others : /\ calls[<<m, s>>].sentAt # <<>>
                              /\ calls[<<m, s>>].data.content = handle[m].content
         /\ handle[m].response = Delivered(2, 2)

\* C5: an authenticated connection is never open later than
\* disconnectTimeoutMs after it connected, and one that has let three
\* consecutive heartbeatRequest probes go unacknowledged is at the instant
\* at which the disconnect timeout cuts it.
C5_DisconnectedInTime ==
  \A s \in Sockets :
    (s \in DOMAIN connections /\ open[s]) =>
      /\ now - connections[s].connectedAt <= disconnectTimeoutMs
      /\ (probes[s].sent >= 3 /\ probes[s].acked = 0) =>
           /\ s \in DOMAIN disconnectTimers
           /\ disconnectTimers[s] = now
           /\ now = connections[s].connectedAt + disconnectTimeoutMs

\* A client that connected at 30 s and answered none of its three probes has
\* just been disconnected by the timeout, 90 s later.
C5_Witness ==
  \E s \in Sockets :
    /\ s \in DOMAIN connections
    /\ connections[s].connectedAt = heartbeatIntervalMs
    /\ connections[s].status = "disconnected"
    /\ ~open[s]
    /\ probes[s] = [sent |-> 3, pending |-> 3, acked |-> 0]
    /\ now = connections[s].connectedAt + disconnectTimeoutMs
    /\ emitted[s] = <<"connected", "heartbeatRequest", "heartbeatRequest",
                      "heartbeatRequest", "disconnect">>

\* C8: in a window of a bucket in which the store answered, of the first
\* ThrottleLimit + 1 checks exactly the last one is denied; a trusted client
\* (trusted address, isAdmin flag or internal-service header) bypasses the
\* check every time and is never denied.
C8_Admission ==
  /\ \A k \in ThrottleKeys :
       ( /\ Len(window[k]) > ThrottleLimit
         /\ \A i \in 1..(ThrottleLimit + 1) : window[k][i] # "failopen" )
       => {i \in 1..(ThrottleLimit + 1) : window[k][i] = "denied"} = {ThrottleLimit + 1}
  /\ \A s \in Sockets :
       shouldBypassRateLimit(origin[s]) =>
         \A i \in DOMAIN verdicts[s] : verdicts[s][i] = "bypass"

\* Client s1 sent ThrottleLimit + 1 sendMessage events in one window and only
\* the last one was denied, while the trusted client's event was let through.
C8_Witness ==
  LET k == generateClientKey(origin["s1"], "u1", "handleMessage") IN
    /\ Len(window[k]) = ThrottleLimit + 1
    /\ \A i \in 1..ThrottleLimit : window[k][i] = "allowed"
    /\ window[k][ThrottleLimit + 1] = "denied"
    /\ verdicts["s1"] = window[k]
    /\ emitted["s1"] = <<"connected", "error">>
    /\ shouldBypassRateLimit(origin["s3"])
    /\ verdicts["s3"] = <<"bypass">>

\* Number of entries of seq that are v.
CountOf(seq, v) == Cardinality({i \in DOMAIN seq : seq[i] = v})

\* C11: a check in which the store does not answer never refuses the event,
\* whatever the event type, the client and the state of its bucket: no
\* verdict taken without the store is a refusal, every 'error' event a client
\* received and every blocked request counted belongs to a denial by a store
\* that answered.
C11_FailOpen ==
  /\ \A s \in Sockets :
       /\ CountOf(verdicts[s], "failclosed") = 0
       /\ CountOf(emitted[s], "error") = CountOf(verdicts[s], "denied")
  /\ \A k \in ThrottleKeys : CountOf(window[k], "failclosed") = 0
  /\ rlStats.blockedRequests =
       Cardinality({<<s, i>> \in Sockets \X (1..MaxChecks) :
                      i <= Len(verdicts[s]) /\ verdicts[s][i] = "denied"})

\* Client s1 used up the limit of its sendAiMessage bucket, was denied once,
\* and its next event in the same window, checked while the store was down,
\* was let through.
C11_Witness ==
  LET k == generateClientKey(origin["s1"], "u1", "handleAiMessage") IN
    /\ Len(window[k]) = ThrottleLimit + 2
    /\ \A i \in 1..ThrottleLimit : window[k][i] = "allowed"
    /\ window[k][ThrottleLimit + 1] = "denied"
    /\ window[k][ThrottleLimit + 2] = "failopen"
    /\ verdicts["s1"] = window[k]
    /\ rlStats = [totalRequests |-> ThrottleLimit + 2, blockedRequests |-> 1]

\* C12: once the disconnect of a connection has been handled (the socket was
\* accepted and is closed), no heartbeat interval and no disconnect timer is
\* armed for it.
C12_NoTimerAfterDisconnect ==
  \A s \in Sockets :
    (authPc[s] # "idle" /\ ~open[s]) =>
      /\ s \notin DOMAIN heartbeatIntervals
      /\ s \notin DOMAIN disconnectTimers

\* C13: the rooms of a connection's Session are the rooms the transport has
\* the connection joined to.
C13_RoomsAgree ==
  \A s \in DOMAIN connections : connections[s].rooms = adapterRooms[s]

\* C14: a connection has a Session only if its handshake token is valid and
\* its authentication finished with success, and a Session is created at most
\* once per connection ('connected' is emitted once for every Session ever
\* stored, never for a connection without one).
C14_OneSessionIfAuthenticated ==
  /\ \A s \in DOMAIN connections :
       /\ TokenValid(extractToken(handshake[s]))
       /\ authPc[s] = "done"
       /\ authResult[s]
       /\ connections[s].userId = TokenClaims(extractToken(handshake[s])).sub
  /\ \A s \in Sockets :
       CountOf(emitted[s], "connected") =
         IF s \in DOMAIN connections \cup purged THEN 1 ELSE 0

\* s1 authenticated and has its Session while s2, whose token is forged, went
\* through authentication and has none.
C14_Witness ==
  /\ DOMAIN connections = {"s1"}
  /\ connections["s1"].userId = "u1"
  /\ authPc["s2"] = "done"
  /\ extractToken(handshake["s2"]) = "tok_forged"
  /\ ~authResult["s2"]

\* The recipients of message m whose client acknowledged it with
\* {received: true}.
Acknowledged(m) ==
  {s \in handle[m].recipients :
     \E i \in DOMAIN calls[<<m, s>>].outcomes : calls[<<m, s>>].outcomes[i] = "ack"}

C18_FailuresCounted ==
  stats.deliveryFailures >=
    Cardinality({k \in DOMAIN calls : calls[k].pc = "returned" /\ ~calls[k].result})

\* C19 (as stated): of two messages pending in the queue of one connection,
\* the later-enqueued one has not been emitted while the call of the earlier
\* one is still running (neither acknowledged nor out of retries).
C19_EnqueueOrder ==
  \A s \in DOMAIN connections :
    \A i, j \in DOMAIN connections[s].messageQueue :
      LET earlier == connections[s].messageQueue[i].id
          later == connections[s].messageQueue[j].id
      IN (i < j /\ calls[<<earlier, s>>].pc # "returned")
           => calls[<<later, s>>].sentAt = <<>>

\* The terminal callbacks (onComplete, onError) invoked so far, in order.
TerminalCalls == SelectSeq(cbLog, LAMBDA c : c.cb \in {"onComplete", "onError"})

\* C16 (as stated): when a streamCompletion call on a registered provider has
\* ended, the provider has invoked exactly one terminal callback, whether or
\* not the caller's onComplete throws.
C16_OneTerminalCallback ==
  (aiMode = "direct" /\ aiPc = "done" /\ aiIn.model[1] \in Registered)
    => Len(TerminalCalls) = 1

\* C17 (as stated): when a sendAiMessage request that names an unregistered
\* provider has ended, it failed with ProviderNotFound and aiError has been
\* emitted to the sender.
C17_UnknownProviderAiError ==
  (aiMode = "gateway" /\ aiPc = "done" /\ parseModel(aiIn.model)[1] \notin Registered)
    => /\ aiResult = Rejected(ProviderNotFound(parseModel(aiIn.model)[1]))
       /\ \E i \in DOMAIN aiEmitted : aiEmitted[i].event = "aiError"

\* C20 (as stated, for AI requests): in a window of a sendAiMessage bucket
\* in which the store answered, a check is denied exactly when its
\* post-increment count exceeds the limit configured for AI requests
\* (AI_THROTTLE_LIMIT), which differs from the limit of generic messages.
C20_LimitPerEventType ==
  \A k \in ThrottleKeys :
    k[4] = "handleAiMessage" =>
      \A i \in DOMAIN window[k] :
        (\A j \in 1..i : window[k][j] # "failopen") =>
          (window[k][i] = "denied" <=> i > AiThrottleLimit)

\* C21: the verdicts of an untrusted client's checks of one event type are
\* those of a bucket that only this client's requests of that type fill: in
\* a window in which the store answered, its own check number i of that type
\* is denied exactly when i exceeds the limit, whatever other users at the
\* same address send and whatever it sends itself under other event types.
C21_BucketIsolation ==
  \A s \in Sockets, e \in EventTypes :
    \A i \in DOMAIN ownChecks[<<s, e>>] :
      (\A j \in 1..i : ownChecks[<<s, e>>][j] # "failopen") =>
        (ownChecks[<<s, e>>][i] = "denied" <=> i > ThrottleLimit)

\* User u1 on s1 used up its sendMessage bucket and was denied; user u2 on
\* s2, who reaches the server from the same address, then sent its first
\* sendMessage and was allowed.
C21_Witness ==
  /\ getClientIp(origin["s1"]) = getClientIp(origin["s2"])
  /\ clientUserId(handshake["s1"]) # clientUserId(handshake["s2"])
  /\ Len(ownChecks[<<"s1", "handleMessage">>]) = ThrottleLimit + 1
  /\ ownChecks[<<"s1", "handleMessage">>][ThrottleLimit + 1] = "denied"
  /\ verdicts["s2"] = <<"allowed">>
  /\ ownChecks[<<"s2", "handleMessage">>] = <<"allowed">>
  /\ Len(verdicts["s1"]) = ThrottleLimit + 1

\* Message m1 went to the room while s2 was a member, s2's connection closed
\* before it acknowledged the message, and its client is connected again (as
\* s3, with a Session) and back in the room.
C22_Pre ==
  /\ <<"m1", "s2">> \in DOMAIN calls
  /\ ~open["s2"]
  /\ Acknowledged("m1") = {}
  /\ open["s3"]
  /\ "s3" \in DOMAIN connections
  /\ "general" \in adapterRooms["s3"]

\* newMessage m1 has been emitted to the member's new connection.
C22_Recovered ==
  /\ <<"m1", "s3">> \in DOMAIN calls
  /\ calls[<<"m1", "s3">>].sentAt # <<>>

\* C22 (as stated): a room message sent while a member disconnects and
\* reconnects is eventually emitted to that member's new connection.
C22_MessageRecovery == C22_Pre ~> C22_Recovered

\* The rooms handleDisconnection notified for s in the step just taken.
NewNotices(s) ==
  SubSeq(disconnectNotices'[s], Len(disconnectNotices[s]) + 1,
         Len(disconnectNotices'[s]))

\* The connection of s, which has a Session, closes in the step just taken.
DisconnectStep(s) ==
  /\ open[s] /\ ~open'[s]
  /\ s \in DOMAIN connections

\* C23: when a connection with a Session closes, its Session is afterwards
\* Disconnected with disconnectedAt recorded, its queue is empty, and
\* 'userLeft' was emitted exactly once to each room the Session was in.
C23_AfterDisconnect ==
  [][\A s \in Sockets :
       DisconnectStep(s) =>
         /\ s \in DOMAIN connections'
         /\ connections'[s].status = "disconnected"
         /\ connections'[s].disconnectedAt = now
         /\ connections'[s].disconnectedAt # NoTime
         /\ connections'[s].messageQueue = <<>>
         /\ \A r \in RoomIds :
              CountOf(NewNotices(s), r) = IF r \in connections[s].rooms THEN 1 ELSE 0
    ]_vars

\* s2 closed while in two rooms and with message m1 pending in its queue:
\* the queue is empty, m1 was discarded (the failure was counted while the
\* send is still waiting) and both rooms were notified once.
C23_Witness ==
  /\ ~open["s2"]
  /\ "s2" \in DOMAIN connections
  /\ connections["s2"].status = "disconnected"
  /\ connections["s2"].messageQueue = <<>>
  /\ Len(disconnectNotices["s2"]) = 2
  /\ \A r \in RoomIds : CountOf(disconnectNotices["s2"], r) = 1
  /\ <<"m1", "s2">> \in DOMAIN calls
  /\ calls[<<"m1", "s2">>].pc = "waiting"
  /\ calls[<<"m1", "s2">>].outcomes = <<>>
  /\ stats.deliveryFailures = 1

\* The Session of s is deleted from the registry in the step just taken.
RemovedStep(s) ==
  s \in DOMAIN connections /\ s \notin DOMAIN connections'

\* A Session is deleted only while Disconnected and no sooner than
\* gracePeriodMs after disconnectedAt.
C24_OnlyStaleRemoved ==
  [][\A s \in Sockets :
       RemovedStep(s) =>
         /\ connections[s].status = "disconnected"
         /\ connections[s].disconnectedAt # NoTime
         /\ now - connections[s].disconnectedAt >= gracePeriodMs
    ]_vars

\* s has a Disconnected Session.
IsDisconnected(s) ==
  s \in DOMAIN connections /\ connections[s].status = "disconnected"

\* Every Disconnected Session is deleted in the end.
C24_EventuallyRemoved ==
  \A s \in Sockets : IsDisconnected(s) ~> (s \notin DOMAIN connections)

\* C24: a Session leaves the registry only while Disconnected and only once
\* the grace window has passed since disconnectedAt, so a Connected Session
\* is never purged; and every Disconnected Session is eventually purged.
C24_Purge == C24_OnlyStaleRemoved /\ C24_EventuallyRemoved

\* s2 was closed by the disconnect timeout and its Session was deleted
\* gracePeriodMs later, after the periodic cleanup had run six times.
C24_Witness ==
  /\ "s2" \in purged
  /\ "s2" \notin DOMAIN connections
  /\ now = disconnectTimeoutMs + gracePeriodMs
  /\ lastCleanup = 6 * cleanupIntervalMs
  /\ Len(emitted["s2"]) >= 4

\* The authentication of s, started or finished, fails.
AuthFails(s) ==
  /\ authPc[s] \in {"verifying", "done"}
  /\ LET payload == verifyAsync(extractToken(handshake[s])) IN
       payload = Null \/ payload.sub = ""

\* s has no heartbeat timers and no Session, and never had one.
Inert(s) ==
  /\ s \notin DOMAIN heartbeatIntervals
  /\ s \notin DOMAIN disconnectTimers
  /\ s \notin DOMAIN connections
  /\ s \notin purged
  /\ roomOps[s] = <<>>
  /\ authPc[s] = "done" => ~open[s]

\* C25 (as stated): a connection whose authentication fails gets no
\* heartbeat and no Session, is closed when the authentication ends, and no
\* joinRoom of it is ever executed.
C25_FailedAuthInert ==
  [][\A s \in Sockets :
       AuthFails(s)' => Inert(s)' /\ adapterRooms'[s] \subseteq adapterRooms[s]
    ]_vars

\* C26 (as stated): when the authentication of a connection has failed, an
\* 'error' event was emitted to the client before the server disconnected it.
C26_ErrorBeforeDisconnect ==
  \A s \in Sockets :
    authPc[s] = "done" /\ ~authResult[s] =>
      \A j \in DOMAIN emitted[s] :
        emitted[s][j] = "disconnect" =>
          \E i \in 1..(j - 1) : emitted[s][i] = "error"

\* The token each handshake location yields, if any: the auth field, a
\* bearer authorization header, the query parameter.
LocationTokens(hs) ==
  << hs.auth,
     IF Len(hs.header) >= 2 /\ IsBearer(hs.header[1]) THEN hs.header[2] ELSE NoToken,
     IF hs.query # <<>> THEN hs.query[1] ELSE NoToken >>

\* The token of the first location, in priority order, that yields one.
FirstToken(hs) ==
  LET found == {i \in 1..3 : LocationTokens(hs)[i] # NoToken} IN
    IF found = {} THEN NoToken
    ELSE LocationTokens(hs)[CHOOSE i \in found : \A j \in found : i <= j]

\* C27 (as stated): when handleConnection finishes, the connection is
\* authenticated exactly if the first handshake location that yields a token
\* (auth field, bearer header, query parameter) yields a valid one.
C27_TokenPriority ==
  [][\A s \in Sockets :
       (authPc[s] # "done" /\ authPc'[s] = "done") =>
         (authResult'[s] <=> TokenValid(FirstToken(handshake'[s])))
    ]_vars

\* Sequence a is an initial part of sequence b.
IsPrefix(a, b) == Len(a) <= Len(b) /\ SubSeq(b, 1, Len(a)) = a

\* The attempt with provider p ends with its stream promise rejected: the
\* upstream stream fails, or the caller's onComplete throws.
AttemptFails(p) == behave[p] = "err" \/ aiIn.cbThrows

\* C28: streamCompletionWithFallback attempts the registered providers of the
\* chain that have a model, in chain order and skipping the others; a
\* provider is attempted only when the call is still unsettled and the
\* previous attempt has failed; nothing is attempted after a success; and
\* with no usable provider the call fails with AllProvidersFailed, nothing
\* having been attempted.
C28_ChainOrder ==
  /\ [](aiMode = "fallback" =>
          /\ IsPrefix(aiAttempts, UsableChain)
          /\ aiResult.status = "resolved" => aiPc = "done"
          /\ (aiPc = "done" /\ UsableChain = <<>>) =>
                (aiResult = Rejected(AllProvidersFailed) /\ aiAttempts = <<>>))
  /\ [][(aiMode = "fallback" /\ aiAttempts' # aiAttempts) =>
          /\ aiResult.status = "pending"
          /\ aiPc = "loop"
          /\ aiAttempts # <<>> => AttemptFails(aiAttempts[Len(aiAttempts)])
       ]_vars

\* The chain starts with an unregistered id; openai streamed a token and
\* failed, then anthropic answered.
C28_Witness ==
  /\ aiMode = "fallback" /\ aiPc = "done"
  /\ fallbackOrder = <<"unknown", "openai", "anthropic">>
  /\ aiAttempts = <<"openai", "anthropic">>
  /\ aiResult.status = "resolved"
  /\ \E i \in DOMAIN cbLog : cbLog[i] = OnToken(<<"openai", 1>>)

\* The tokens the caller's onToken has received, in order.
TokensSeen(log) ==
  LET calls1 == SelectSeq(log, LAMBDA c : c.cb = "onToken") IN
    [i \in DOMAIN calls1 |-> calls1[i].text[1]]

\* The position in the attempts of the provider that produced token t.
AttemptOf(t) ==
  CHOOSE i \in DOMAIN aiAttempts :
    aiAttempts[i] = t[1] /\ \A j \in 1..(i - 1) : aiAttempts[j] # t[1]

\* No provider was attempted twice.
DistinctAttempts ==
  \A i, j \in DOMAIN aiAttempts : i # j => aiAttempts[i] # aiAttempts[j]

\* C29: during streamCompletionWithFallback every token of the active
\* provider reaches the caller's onToken in the step in which it arrives, no
\* token the caller has seen is taken back, and the tokens the caller has
\* seen are those of the attempted providers in the order of the attempts,
\* ending with all the tokens of the current attempt.
C29_TokensForwarded ==
  /\ [](aiMode = "fallback" =>
          LET seen == TokensSeen(cbLog) IN
            /\ Len(seen) >= Len(aiFull)
            /\ SubSeq(seen, Len(seen) - Len(aiFull) + 1, Len(seen)) = aiFull
            /\ \A i \in DOMAIN seen : \E k \in DOMAIN aiAttempts : aiAttempts[k] = seen[i][1]
            /\ DistinctAttempts =>
                 \A i, j \in DOMAIN seen :
                   i < j => AttemptOf(seen[i]) <= AttemptOf(seen[j]))
  /\ [][aiMode = "fallback" =>
          /\ IsPrefix(TokensSeen(cbLog), TokensSeen(cbLog'))
          /\ (aiFull' # aiFull /\ aiFull' # <<>>) =>
               TokensSeen(cbLog') = Append(TokensSeen(cbLog), aiFull'[Len(aiFull')])
       ]_vars

\* openai streamed two tokens and failed; anthropic then streamed two tokens
\* and completed: the caller saw the four tokens in that order.
C29_Witness ==
  /\ aiMode = "fallback" /\ aiPc = "done"
  /\ aiAttempts = <<"openai", "anthropic">>
  /\ aiResult.status = "resolved"
  /\ TokensSeen(cbLog) = << <<"openai", 1>>, <<"openai", 2>>,
                            <<"anthropic", 1>>, <<"anthropic", 2>> >>

\* The sender's connection has closed while its AI stream is in flight.
C30_Pre ==
  /\ aiMode = "gateway" /\ aiPc = "streaming"
  /\ ~open[AiSender]

\* The stream reached its terminal callback, and if it completed the AI
\* message was broadcast to the room.
C30_Done ==
  /\ aiPc = "done"
  /\ Len(TerminalCalls) = 1
  /\ behave[aiActive] = "ok" =>
       /\ Len(aiBroadcast) > 0
       /\ aiBroadcast[Len(aiBroadcast)] = NewMessage(aiFull, TRUE)
       /\ TerminalCalls = <<OnComplete(aiFull)>>

\* C30: an AI stream whose sender disconnects is not cancelled: it goes on
\* to its terminal callback, and when it completes the AI newMessage is
\* broadcast to the room.
C30_StreamOutlivesSender ==
  /\ C30_Pre ~> C30_Done
  /\ [][(C30_Pre /\ aiPc' # "streaming") => C30_Done']_vars

\* The sender left after the first token; the second token and the
\* completion followed, and the AI message went to the room.
C30_Witness ==
  /\ ~open[AiSender]
  /\ aiMode = "gateway" /\ aiPc = "done"
  /\ Len(aiFull) = 2
  /\ aiBroadcast = <<NewMessage(UserText, FALSE), NewMessage(aiFull, TRUE)>>
  /\ connections[AiSender].status = "disconnected"

\* The check of an event whose throttle key is k has been taken in this step.
CheckedStep(k) == Len(window'[k]) > Len(window[k])

\* C31: once the time-to-live of a bucket has run out (the store holds no
\* counter for the key any more), the next check on that key is admitted,
\* and the counter the store keeps for it afterwards is 1, whatever was
\* refused in the window before.
C31_WindowRestart ==
  [][\A k \in ThrottleKeys :
       (k \notin DOMAIN redis /\ CheckedStep(k)) =>
         /\ window'[k][Len(window'[k])] \in {"allowed", "failopen"}
         /\ k \in DOMAIN redis' => redis'[k].hits = 1]_vars

\* s1 was refused, the window of its bucket ended, and its next event was
\* admitted with the counter at 1 again.
C31_Witness ==
  LET k == generateClientKey(origin["s1"], clientUserId(handshake["s1"]), "handleJoinRoom")
  IN /\ Len(verdicts["s1"]) = ThrottleLimit + 2
     /\ \A i \in 1..ThrottleLimit : verdicts["s1"][i] = "allowed"
     /\ verdicts["s1"][ThrottleLimit + 1] = "denied"
     /\ verdicts["s1"][ThrottleLimit + 2] = "allowed"
     /\ ownChecks[<<"s1", "handleJoinRoom">>] = <<"allowed">>
     /\ k \in DOMAIN redis
     /\ redis[k].hits = 1

\* C40: every retryAfter hint sent with a refusal is a positive number of
\* seconds that does not exceed the window of the rule (its ttl in seconds).
C40_RetryAfterWithinWindow ==
  \A s \in Sockets : \A i \in DOMAIN retryHints[s] :
    /\ retryHints[s][i] > 0
    /\ retryHints[s][i] <= WebSocketRule.ttl

\* The check of an event of client s has refused it in this step.
DeniedStep(s) ==
  /\ Len(verdicts'[s]) = Len(verdicts[s]) + 1
  /\ verdicts'[s][Len(verdicts'[s])] \in {"denied", "failclosed"}

\* C33: when the guard refuses an event, the client is sent one 'error' with
\* a retryAfter hint, the handler has no effect (the adapter's rooms, every
\* session with its rooms and queue, and the counters are as before), and
\* the connection of the client is still open and its session connected.
C33_DeniedFrame ==
  [][\A s \in Sockets : DeniedStep(s) =>
       /\ emitted'[s] = Append(emitted[s], "error")
       /\ Len(retryHints'[s]) = Len(retryHints[s]) + 1
       /\ \A t \in Sockets \ {s} : emitted'[t] = emitted[t]
       /\ adapterRooms' = adapterRooms
       /\ connections' = connections
       /\ stats' = stats
       /\ roomOps' = roomOps
       /\ open' = open /\ open'[s]
       /\ s \in DOMAIN connections' => connections'[s].status = "connected"]_vars

\* s1 has joined rooms up to the limit and its latest joinRoom was refused:
\* it got the 'error' and is still connected.
C33_Witness ==
  /\ Len(verdicts["s1"]) = ThrottleLimit + 1
  /\ verdicts["s1"][ThrottleLimit + 1] = "denied"
  /\ Len(roomOps["s1"]) = ThrottleLimit
  /\ emitted["s1"][Len(emitted["s1"])] = "error"
  /\ Len(retryHints["s1"]) = 1
  /\ open["s1"]
  /\ connections["s1"].status = "connected"

\* The sendMessageWithRetry calls made for a socket that had a session.
CountedCalls == {k \in DOMAIN calls : calls[k].sentAt # <<>>}

\* C35: once every sendMessageWithRetry call has returned, deliverySuccess +
\* deliveryFailures has grown by exactly the number of calls made for sockets
\* with a session, also when recipients disconnected in between.
C35_CountedOnce ==
  (calls # << >> /\ \A k \in DOMAIN calls : calls[k].pc = "returned") =>
    stats.deliverySuccess + stats.deliveryFailures = Cardinality(CountedCalls)

RECURSIVE SumRooms(_)
\* The sum of the sizes of Session.rooms over the sessions of S.
SumRooms(S) ==
  IF S = {} THEN 0
  ELSE LET s == CHOOSE t \in S : TRUE
       IN Cardinality(connections[s].rooms) + SumRooms(S \ {s})

\* C36: the room counter of StatsManager equals the sum over all sessions of
\* the number of rooms of the session.
C36_RoomCount == stats.totalRooms = SumRooms(DOMAIN connections)

\* C37: the connectedUsers counter equals the number of sessions that are
\* connected and whose transport connection is open.
C37_ConnectedUsers ==
  stats.connectedUsers =
    Cardinality({s \in DOMAIN connections :
                   connections[s].status = "connected" /\ open[s]})

\* Socket s has a session and its transport connection is closed.
ClosedWithSession(s) == s \in DOMAIN connections /\ ~open[s]

\* Socket s has no session, or its session is marked disconnected.
MarkedDisconnected(s) ==
  s \in DOMAIN connections => connections[s].status = "disconnected"

\* C38: every session whose transport connection has closed is eventually
\* marked disconnected and eventually removed from the registry, whenever
\* the connection closed.
C38_ClosedEventuallyPurged ==
  \A s \in Sockets :
    /\ ClosedWithSession(s) ~> MarkedDisconnected(s)
    /\ ClosedWithSession(s) ~> (s \notin DOMAIN connections)

\* The liveness monitor closes the connection of s in this step: the server
\* disconnects a client that was connected.
ForceClosedStep(s) ==
  /\ open[s] /\ ~open'[s]
  /\ emitted'[s] = Append(emitted[s], "disconnect")

\* C34: the liveness monitor closes a connection only if the client gave a
\* falsy response in that step or has left a heartbeatRequest unanswered; a
\* client whose every probe got a truthy response is never closed by it.
\* (A falsy response closes the connection at once, so the responses an open
\* connection has given before are all truthy.)
C34_ResponsiveNeverClosed ==
  [][\A s \in Sockets : ForceClosedStep(s) =>
       \/ probes'[s].acked > probes[s].acked
       \/ probes[s].pending > 0]_vars

\* C39: when streamCompletionWithFallback has rejected after at least one
\* provider was attempted, the caller's onError has been called, and its
\* latest call carries the error of the provider attempted last.
C39_OnErrorOnFailure ==
  (aiMode = "fallback" /\ aiResult.status = "rejected" /\ aiAttempts # <<>>) =>
    LET errors == CallsOf("onError") IN
      /\ errors # <<>>
      /\ errors[Len(errors)].err.provider = aiAttempts[Len(aiAttempts)]

\* The checks on key k, by their position in the order in which the store
\* ran their increments.
EvalsOn(k) == {i \in DOMAIN evals : evals[i].key = k}

\* C32: the checks on one key within one window observe distinct counts,
\* exactly 1..K for K checks, however their increments and replies
\* interleave, and at most `limit` of them are admitted.
C32_AtomicIncrement ==
  \A k \in ThrottleKeys :
    /\ \A i, j \in EvalsOn(k) : i # j => evals[i].totalHits # evals[j].totalHits
    /\ {evals[i].totalHits : i \in EvalsOn(k)} = 1..Cardinality(EvalsOn(k))
    /\ Cardinality({i \in EvalsOn(k) : evals[i].verdict = "allowed"})
         <= WebSocketRule.limit

\* limit + 1 checks of s1 on one key were in flight together: the check that
\* saw the count limit + 1 has been refused while the others still await
\* the reply of the store.
C32_Witness ==
  /\ Len(evals) = ThrottleLimit + 1
  /\ \A i \in DOMAIN evals : evals[i].key = evals[1].key /\ evals[i].socket = "s1"
  /\ evals[ThrottleLimit + 1].verdict = "denied"
  /\ \A i \in 1..ThrottleLimit : evals[i].pc = "awaiting"

====
